---- MODULE Spec2Model ----
(***************************************************************************)
(* itter.sh: the interactive terminal session engine.                      *)
(*                                                                         *)
(* The model follows the asyncio execution of the server: every callback   *)
(* (data_received, connection_made, connection_lost, the realtime          *)
(* dispatcher) is one atomic step, and every coroutine is cut at its       *)
(* awaits (the store calls, asyncio.sleep, asyncio.to_thread).  A task     *)
(* created with asyncio.create_task takes its first step after every task  *)
(* created before it has taken its own (the loop's ready queue is FIFO).   *)
(* Task.cancel() makes the task's next resumption raise CancelledError.    *)
(*                                                                         *)
(* The timeline filter is kept by its type and the cached sidebar list by  *)
(* its length; the text of the entries is not part of the state.           *)
(***************************************************************************)
EXTENDS Integers, Sequences, FiniteSets, TLC

\* ---------------------------------------------------------------- bounds
NumSessions == 2      \* connections accepted during a run
MaxTasks == 4         \* asyncio tasks that are unfinished at one time
MaxInputs == 3        \* logins, lines and keys during a run
MaxPosts == 1         \* posts inserted during a run
MaxPage == 3          \* the last page a page-down key moves to
MaxKeys == 6          \* keys received while a line is edited key by key
MaxLen == 3           \* characters typed into one line

\* ------------------------------------------------------ program constants
MIN_TIMELINE_PAGE_SIZE == 1
MAX_TIMELINE_PAGE_SIZE == 30
DEFAULT_TIMELINE_PAGE_SIZE == 10
SIDEBAR_SCROLL_STEP == 3
EET_MAX_LENGTH == 180
MAX_HISTORY_SIZE == 10
DEFAULT_TERM_HEIGHT == 24
NoTask == 0           \* _timeline_auto_refresh_task is None
DoneTask == -1        \* _timeline_auto_refresh_task is a task that is done()
NoSession == 0        \* no entry in active_sessions
NoCount == -1         \* _last_timeline_eets_count is None
NoPage == -1          \* the line has no trailing page number

Sessions == 1..NumSessions
Usernames == {"alice", "bob"}
\* users whose connections are not followed: only their registry entries are
Others == {"carol", "dave", "erin"}
AllNames == Usernames \cup Others
Elsewhere == NumSessions + 1     \* the registry entry of such a user
NoUser == "-"

\* what a timeline fetch may return: less than a page, a full page
FetchCounts == {0, DEFAULT_TIMELINE_PAGE_SIZE}
\* submitted lines: the command word, and the trailing page token
Commands == {"watch", "timeline", "exit", "eet", "clear", "help"}
PageTokens == {NoPage, 0, 2}
\* the length of the text after the command word, stripped
ContentLengths == {0, EET_MAX_LENGTH, EET_MAX_LENGTH + 1}

VARIABLES
    shell,            \* [Sessions -> the fields of one ItterShell]
    server,           \* [Sessions -> the fields of one ItterSSHServer]
    active_sessions,  \* the registry: [AllNames -> session or NoSession]
    tasks,            \* the asyncio tasks, in creation order
    screen,           \* [Sessions -> what the terminal shows]
    posts,            \* rows of the posts table
    follows,          \* the follows table: <<follower, following>>
    ignored_users,    \* the ignored_users table: <<ignorer, ignored user>>
    call,             \* the call of a rendering function that is examined
    delivered,        \* INSERT events the realtime channel has delivered
    typed             \* logins, lines and keys so far

vars == <<shell, server, active_sessions, tasks, screen, posts, follows,
         ignored_users, call, delivered, typed>>

\* ------------------------------------------------------------------ state
\* no rendering function is examined
NoCall == [fn |-> "none"]

NewServer ==
    [ current_username |-> NoUser,
      is_registration_attempt |-> FALSE,
      registration_username_candidate |-> <<>>,  \* <<>> is None
      submitted_public_key |-> FALSE ]           \* a key has been captured

\* the server object of a connection that has logged in as u with its key
LoggedIn(u) ==
    IF u = NoUser THEN NewServer
    ELSE [NewServer EXCEPT !.current_username = u, !.submitted_public_key = TRUE]

NewShell ==
    [ chan |-> "free",               \* free | requested | open | lost
      close_called |-> FALSE,        \* close() has closed the channel
      username |-> NoUser,
      reg_username_candidate |-> <<>>, \* set in the registration flow
      current_target_filter |-> "all", \* its type: all | mine | user | channel
      is_watching_timeline |-> FALSE,
      sidebar_enabled |-> FALSE,
      timeline_auto_refresh_task |-> NoTask,
      current_timeline_page |-> 1,
      timeline_page_size |-> DEFAULT_TIMELINE_PAGE_SIZE,
      last_timeline_eets_count |-> NoCount,
      sidebar_scroll_offset |-> 0,
      sidebar_full_user_list |-> 0,  \* len(_sidebar_full_user_list)
      term_height |-> DEFAULT_TERM_HEIGHT,
      input_buffer |-> <<>>,         \* the characters of the line
      cursor_pos |-> 0,
      history |-> <<>>,              \* _command_history.history, newest first
      history_cursor |-> -1 ]        \* _command_history.cursor

\* the last full screen written to the terminal and what has been written
\* below it since; timer, dpage, title, ver and watching describe a watch
\* screen and are blank on every other one
BlankScreen ==
    [ kind |-> "none",     \* none | idle | static | watch | error
      timer |-> FALSE,     \* written by the periodic refresh task
      dpage |-> 0,         \* the page the shown posts were fetched for
      title |-> 0,         \* the page number in the title of the screen
      ver |-> 0,           \* rows of the posts table when the fetch began
      watching |-> FALSE,  \* _is_watching_timeline when it was written
      redrawn |-> <<>>,    \* the line drawn after the prompt of the screen
      below |-> <<>> ]     \* lines and prompts written since, by their kind

NewTask(id, kind, s, cmd, page) ==
    [ id |-> id,           \* the identity of the task object
      kind |-> kind,       \* cmd | render | static | notif | loop | reg
      sess |-> s,
      cmd |-> cmd,
      pc |-> "new",        \* new | rw_fetch | rw_side | st_fetch | st_fmt
                           \* | eet_post | sleep | rel_check | rel_write
                           \* | reg_create
      cancelled |-> FALSE,
      page |-> page,       \* the page asked for / being fetched
      ver |-> 0,           \* rows of the posts table when the fetch began
      online |-> 0,        \* sidebar: the registry keys read before the await
      len |-> 0,           \* cmd: the length of the stripped argument text
      arg |-> <<>>,        \* settings pagesize: the token after it, if any
      target |-> "",       \* timeline, watch: the target before the page;
                           \* follow .. unignore: the user after the @
      line |-> <<>> ]      \* cmd: the line, when it was typed key by key

\* the server has started and nobody has connected
Started ==
    /\ shell = [s \in Sessions |-> NewShell]
    /\ server = [s \in Sessions |-> NewServer]
    /\ active_sessions = [u \in AllNames |-> NoSession]
    /\ tasks = <<>>
    /\ screen = [s \in Sessions |-> BlankScreen]
    /\ posts = 0
    /\ follows = {}
    /\ ignored_users = {}
    /\ delivered = 0
    /\ typed = 0

Init ==
    /\ Started
    /\ call = NoCall

\* ---------------------------------------------------------------- helpers
\* tasks holds the tasks that are not done(); a task leaves it when it ends
Max(a, b) == IF a >= b THEN a ELSE b
Min(a, b) == IF a <= b THEN a ELSE b

InRender(t) == t.pc \in {"rw_fetch", "rw_side", "st_fetch", "st_fmt"}

RemoveAt(q, i) == [k \in 1..(Len(q) - 1) |-> IF k < i THEN q[k] ELSE q[k + 1]]

TaskIds(tk) == {tk[k].id : k \in DOMAIN tk}

FreshId(tk) == CHOOSE id \in 1..(Len(tk) + 1) : id \notin TaskIds(tk)

\* task i ends: a reference the session holds to it now is to a done task
Finish(w, i) ==
    [w EXCEPT !.tk = RemoveAt(w.tk, i),
              !.me.timeline_auto_refresh_task =
                  IF @ = w.tk[i].id THEN DoneTask ELSE @]

Room(n) == Len(tasks) + n <= MaxTasks

\* the frame a step of session s works on
Frame(s) == [me |-> shell[s], tk |-> tasks, scr |-> screen[s]]

\* a page size kept in one place for all sessions: the step of one session
\* writes its page size to all of them
CommitSharedPageSize(s, w) ==
    /\ shell' = [r \in Sessions |->
                   IF r = s THEN w.me
                   ELSE [shell[r] EXCEPT !.timeline_page_size =
                                             w.me.timeline_page_size]]
    /\ tasks' = w.tk
    /\ screen' = [screen EXCEPT ![s] = w.scr]

Commit(s, w) ==
    /\ shell' = [shell EXCEPT ![s] = w.me]
    /\ tasks' = w.tk
    /\ screen' = [screen EXCEPT ![s] = w.scr]

\* if task and not task.done(): task.cancel()
CancelTask(tk, id) ==
    [k \in DOMAIN tk |-> IF tk[k].id = id THEN [tk[k] EXCEPT !.cancelled = TRUE]
                         ELSE tk[k]]

\* ------------------------------------------------- writing to the terminal
\* _clear_screen followed by a full screen and the prompt; the error screen
\* of refresh_watch_display ends with _redraw_prompt_and_buffer, the others
\* with _prompt
WriteScreen(w, kind) ==
    IF w.me.chan = "open"
    THEN [w EXCEPT !.scr = [BlankScreen EXCEPT
                               !.kind = kind,
                               !.redrawn = IF kind = "error"
                                           THEN w.me.input_buffer ELSE <<>>]]
    ELSE w

\* a render whose output never reaches the terminal
WriteWatchScreenDropped(w, i) == w

\* the watch screen that task i has fetched
WriteWatchScreen(w, i) ==
    IF w.me.chan = "open"
    THEN [w EXCEPT !.scr = [ kind |-> "watch",
                             timer |-> w.tk[i].kind = "loop",
                             dpage |-> w.tk[i].page,
                             title |-> w.me.current_timeline_page,
                             ver |-> w.tk[i].ver,
                             watching |-> w.me.is_watching_timeline,
                             redrawn |-> w.me.input_buffer,
                             below |-> <<>> ]]
    ELSE w

\* _write_to_channel below the screen: lines, by their kind
WriteBelow(w, ls) ==
    IF w.me.chan = "open" THEN [w EXCEPT !.scr.below = @ \o ls] ELSE w

\* _prompt
Prompt(w) == IF w.me.username # NoUser THEN WriteBelow(w, <<"prompt">>) ELSE w

\* the end of _handle_command_line: if self._chan and not
\* self._is_watching_timeline: self._prompt()
ReturnFromCommand(w, i) ==
    Finish(IF w.me.chan = "open" /\ ~w.me.is_watching_timeline
           THEN Prompt(w) ELSE w, i)

\* start_live_timeline_view after its first render: cancel, then create
StartRefreshLoopNoCancel(w, i) ==
    LET id == FreshId(w.tk)
    IN [w EXCEPT !.tk = Append(w.tk, NewTask(id, "loop", w.tk[i].sess, "-", 0)),
                 !.me.timeline_auto_refresh_task = id]

StartRefreshLoop(w, i) ==
    LET tk1 == CancelTask(w.tk, w.me.timeline_auto_refresh_task)
        id == FreshId(tk1)
    IN [w EXCEPT !.tk = Append(tk1, NewTask(id, "loop", w.tk[i].sess, "-", 0)),
                 !.me.timeline_auto_refresh_task = id]

\* what the caller of refresh_watch_display does when it returns
AfterRefresh(w, i) ==
    LET t == w.tk[i] IN
    CASE t.kind = "loop" ->
            \* back to: while shell._is_watching_timeline
            IF w.me.is_watching_timeline
            THEN [w EXCEPT !.tk[i].pc = "sleep", !.tk[i].page = 0,
                           !.tk[i].ver = 0, !.tk[i].online = 0]
            ELSE Finish(w, i)
      [] t.kind = "cmd" /\ t.cmd = "watch" ->
            ReturnFromCommand(StartRefreshLoop(w, i), i)
      [] t.kind = "cmd" /\ t.cmd = "eet" -> ReturnFromCommand(w, i)
      [] OTHER -> Finish(w, i)

\* refresh_watch_display up to its first await
RefreshWatchDisplay(w, i, page, ver) ==
    IF w.me.username = NoUser \/ ~w.me.is_watching_timeline
    THEN AfterRefresh(w, i)
    ELSE [w EXCEPT !.me.current_timeline_page = page,
                   !.tk[i].pc = "rw_fetch", !.tk[i].page = page,
                   !.tk[i].ver = ver]

\* what the caller of render_and_display_timeline does when it returns
AfterStatic(w, i) ==
    IF w.tk[i].kind = "cmd"
    THEN ReturnFromCommand(w, i)
    ELSE Finish(w, i)

\* render_and_display_timeline(page, is_live_update=False) up to its await
RenderStatic(w, i, page) ==
    IF w.me.username = NoUser
    THEN AfterStatic(w, i)
    ELSE [w EXCEPT !.me.sidebar_enabled = FALSE,
                   !.me.current_timeline_page = page,
                   !.tk[i].pc = "st_fetch", !.tk[i].page = page,
                   !.tk[i].ver = posts]

\* the write at the end of refresh_watch_display, then back to the caller
WriteWatchAndReturn(w, i) == AfterRefresh(WriteWatchScreen(w, i), i)

RegisteredNames == {u \in AllNames : active_sessions[u] # NoSession}

\* ------------------------------------------------- connection life cycle
\* ItterSSHServer.begin_auth .. session_requested: a login as username u
\* (connections are numbered in the order they are accepted)
Login(s, u) ==
    /\ shell[s].chan = "free"
    /\ \A r \in 1..(s - 1) : shell[r].chan # "free"
    /\ typed < MaxInputs
    /\ typed' = typed + 1
    /\ shell' = [shell EXCEPT ![s].chan = "requested", ![s].username = u]
    /\ server' = [server EXCEPT ![s] = LoggedIn(u)]
    /\ UNCHANGED <<active_sessions, tasks, screen, posts, follows, ignored_users, call,
            delivered>>

\* _is_registration_flow: the shell was made with registration details
IsRegistrationFlow(me) == me.reg_username_candidate # <<>>

\* ItterShell.connection_made: register, banner, help, prompt
ConnectionMade(s) ==
    /\ shell[s].chan = "requested"
    /\ ~IsRegistrationFlow(shell[s])
    /\ shell' = [shell EXCEPT ![s].chan = "open"]
    /\ active_sessions' = [active_sessions EXCEPT ![shell[s].username] = s]
    /\ screen' = [screen EXCEPT ![s] = [BlankScreen EXCEPT !.kind = "idle"]]
    /\ UNCHANGED <<server, tasks, posts, follows, ignored_users, call, delivered, typed>>

\* del active_sessions[username], if it is there
RemoveEntryKeep(reg, u) == reg

RemoveEntry(reg, u) == [reg EXCEPT ![u] = NoSession]

\* ItterShell.connection_lost
ShellConnectionLost(s) ==
    /\ shell[s].chan = "open"
    /\ active_sessions' = RemoveEntry(active_sessions, shell[s].username)
    /\ tasks' = CancelTask(tasks, shell[s].timeline_auto_refresh_task)
    /\ shell' = [shell EXCEPT ![s].sidebar_enabled = FALSE, ![s].chan = "lost"]
    /\ UNCHANGED <<server, screen, posts, follows, ignored_users, call, delivered, typed>>

\* ItterSSHServer.connection_lost: after the channel of the connection, if
\* one was opened, has been closed
ServerConnectionLost(s) ==
    /\ server[s].current_username # NoUser
    /\ shell[s].chan \in {"requested", "lost"}
    /\ active_sessions' = RemoveEntry(active_sessions,
                                       server[s].current_username)
    /\ server' = [server EXCEPT ![s].current_username = NoUser]
    /\ shell' = [shell EXCEPT ![s].chan = "lost"]
    /\ UNCHANGED <<tasks, screen, posts, follows, ignored_users, call, delivered, typed>>

\* connection_lost of the session of a user whose connection is not followed
OtherLeaves(u) ==
    /\ active_sessions[u] = Elsewhere
    /\ active_sessions' = RemoveEntry(active_sessions, u)
    /\ UNCHANGED <<shell, server, tasks, screen, posts, follows, ignored_users, call,
            delivered, typed>>

\* ------------------------------------------------ data_received: the keys
CreateTask(kind, s, cmd, page) ==
    tasks' = Append(tasks, NewTask(FreshId(tasks), kind, s, cmd, page))

\* Ctrl+U, a line and Enter, received as one chunk: the line is handled in
\* a task of its own. The line is given by its command word, its page token
\* and the length of its argument text; its text is not kept, and it is
\* not entered in the history that is followed here.
SubmitLine(s, cmd, tok, n) ==
    /\ shell[s].chan = "open"
    /\ typed < MaxInputs
    /\ typed' = typed + 1
    /\ Room(1)
    /\ shell' = [shell EXCEPT ![s].input_buffer = <<>>, ![s].cursor_pos = 0]
    /\ tasks' = Append(tasks, [NewTask(FreshId(tasks), "cmd", s, cmd, tok)
                                  EXCEPT !.len = n])
    /\ UNCHANGED <<server, active_sessions, screen, posts, follows, ignored_users, call,
            delivered>>

\* Ctrl+U, one of the lines `follow @target` .. `unignore @target` and
\* Enter, as one chunk
SubmitRelation(s, cmd, target) ==
    /\ shell[s].chan = "open"
    /\ typed < MaxInputs
    /\ typed' = typed + 1
    /\ Room(1)
    /\ shell' = [shell EXCEPT ![s].input_buffer = <<>>, ![s].cursor_pos = 0]
    /\ tasks' = Append(tasks, [NewTask(FreshId(tasks), "cmd", s, cmd, NoPage)
                                  EXCEPT !.target = target])
    /\ UNCHANGED <<server, active_sessions, screen, posts, follows,
                   ignored_users, call, delivered>>

\* Ctrl+U, a timeline or watch line with a target and Enter, as one chunk
SubmitTarget(s, cmd, target) ==
    /\ shell[s].chan = "open"
    /\ typed < MaxInputs
    /\ typed' = typed + 1
    /\ Room(1)
    /\ shell' = [shell EXCEPT ![s].input_buffer = <<>>, ![s].cursor_pos = 0]
    /\ tasks' = Append(tasks, [NewTask(FreshId(tasks), "cmd", s, cmd, NoPage)
                                  EXCEPT !.target = target])
    /\ UNCHANGED <<server, active_sessions, screen, posts, follows, ignored_users, call,
            delivered>>

\* Ctrl+U, the line `settings pagesize` with the token arg after it, or
\* with none, and Enter, received as one chunk
SubmitPagesize(s, arg) ==
    /\ shell[s].chan = "open"
    /\ typed < MaxInputs
    /\ typed' = typed + 1
    /\ Room(1)
    /\ shell' = [shell EXCEPT ![s].input_buffer = <<>>, ![s].cursor_pos = 0]
    /\ tasks' = Append(tasks, [NewTask(FreshId(tasks), "cmd", s, "settings",
                                       NoPage) EXCEPT !.arg = arg])
    /\ UNCHANGED <<server, active_sessions, screen, posts, follows, ignored_users, call,
            delivered>>

\* a page key with nowhere to go: the 'already at the first/last page'
\* line and the prompt, no other effect
PageKeyMessageSilent(s, text) == UNCHANGED <<shell, tasks, screen>>

PageKeyMessage(s, text) ==
    /\ screen' = [screen EXCEPT ![s].below = @ \o <<text, "prompt">>]
    /\ UNCHANGED <<shell, tasks>>

\* a page key that moves to page p and schedules the render of its mode
PageKeyRender(s, p) ==
    /\ Room(1)
    /\ shell' = [shell EXCEPT ![s].current_timeline_page = p]
    /\ CreateTask(IF shell[s].is_watching_timeline THEN "render" ELSE "static",
                  s, "-", p)
    /\ UNCHANGED screen

\* ----------------------------------------------------- the line editor
\* the printable characters typed here; with them the only command word
\* that can be formed is e (eet)
TypedChars == {"e", " "}

IsSpace(char) == char = " "

RECURSIVE StripLeft(_)
StripLeft(q) == IF q # <<>> /\ IsSpace(Head(q)) THEN StripLeft(Tail(q)) ELSE q

RECURSIVE StripRight(_)
StripRight(q) ==
    IF q # <<>> /\ IsSpace(q[Len(q)])
    THEN StripRight(SubSeq(q, 1, Len(q) - 1)) ELSE q

Strip(q) == StripRight(StripLeft(q))

\* the length of the run of non-space characters q begins with
RECURSIVE WordLen(_)
WordLen(q) == IF q = <<>> \/ IsSpace(Head(q)) THEN 0 ELSE 1 + WordLen(Tail(q))

\* CMD_SPLIT_RE on the stripped line: the first word, and what follows the
\* white space after it (cmd is empty where parse_input_line answers None)
ParseInputLine(line) ==
    LET st == Strip(line)
        k == WordLen(st)
    IN [cmd |-> SubSeq(st, 1, k),
        raw_text |-> StripLeft(SubSeq(st, k + 1, Len(st)))]

\* (cmd + " " + raw_text_full.strip()).strip()
HistoryLine(line) ==
    LET parsed == ParseInputLine(line)
    IN Strip(parsed.cmd \o <<" ">> \o Strip(parsed.raw_text))

\* the branch of the dispatch a command word of TypedChars takes
CommandWord(word) ==
    IF word = <<>> THEN "blank"
    ELSE IF word \in {<<"e">>, <<"e", "e", "t">>} THEN "eet"
    ELSE "unknown"

\* CommandHistory.peek
Peek(history) == IF history = <<>> THEN <<>> ELSE Head(history)

\* an add that stores a command equal to the newest entry again
HistoryAddKeepsDuplicates(me, command) ==
    LET h == me.history
    IN [me EXCEPT !.history_cursor = -1,
                  !.history = <<command>> \o (IF Len(h) = MAX_HISTORY_SIZE
                                              THEN SubSeq(h, 1, Len(h) - 1)
                                              ELSE h)]

\* CommandHistory.add
HistoryAdd(me, command) ==
    LET h == me.history
    IN [me EXCEPT !.history_cursor = -1,
                  !.history =
                      IF command = Peek(h) THEN h
                      ELSE <<command>> \o (IF Len(h) = MAX_HISTORY_SIZE
                                           THEN SubSeq(h, 1, Len(h) - 1)
                                           ELSE h)]

\* CommandHistory.scroll_up: the new state and the command returned
ScrollUp(me) ==
    LET h == me.history
    IN IF h = <<>> THEN [me |-> me, command |-> <<>>]
       ELSE IF me.history_cursor < Len(h) - 1
       THEN [me |-> [me EXCEPT !.history_cursor = @ + 1],
             command |-> h[me.history_cursor + 2]]
       ELSE [me |-> me, command |-> h[Len(h)]]

\* a scroll_down that stays on the newest entry
ScrollDownStaysOnNewest(me) ==
    LET h == me.history
    IN IF h = <<>> \/ me.history_cursor < 0
       THEN [me |-> me, command |-> <<>>]
       ELSE IF me.history_cursor = 0
       THEN [me |-> me, command |-> h[1]]
       ELSE [me |-> [me EXCEPT !.history_cursor = @ - 1],
             command |-> h[me.history_cursor]]

\* CommandHistory.scroll_down
ScrollDown(me) ==
    LET h == me.history
    IN IF h = <<>> \/ me.history_cursor <= 0
       THEN [me |-> [me EXCEPT !.history_cursor = Max(-1, @ - 1)],
             command |-> <<>>]
       ELSE [me |-> [me EXCEPT !.history_cursor = @ - 1],
             command |-> h[me.history_cursor]]

\* the line is replaced by a command of the history, the cursor at its end
Recall(r) ==
    [r.me EXCEPT !.input_buffer = r.command, !.cursor_pos = Len(r.command)]

\* Backspace
DeleteBeforeCursor(me) ==
    IF me.cursor_pos > 0
    THEN [me EXCEPT !.input_buffer = SubSeq(@, 1, me.cursor_pos - 1)
                                       \o SubSeq(@, me.cursor_pos + 1, Len(@)),
                    !.cursor_pos = @ - 1]
    ELSE me

\* Ctrl+U
KillLine(me) ==
    IF me.input_buffer # <<>>
    THEN [me EXCEPT !.input_buffer = <<>>, !.cursor_pos = 0]
    ELSE me

\* while start_pos >= 0 and old_buffer[start_pos].isspace() = space:
\* start_pos -= 1 (start_pos counts from 0)
RECURSIVE SkipLeft(_, _, _)
SkipLeft(old_buffer, start_pos, space) ==
    IF start_pos >= 0 /\ IsSpace(old_buffer[start_pos + 1]) = space
    THEN SkipLeft(old_buffer, start_pos - 1, space)
    ELSE start_pos

\* Ctrl+W
KillWord(me) ==
    IF me.cursor_pos > 0
    THEN LET old_buffer == me.input_buffer
             end_pos == me.cursor_pos
             new_cursor_pos ==
                 SkipLeft(old_buffer,
                          SkipLeft(old_buffer, end_pos - 1, TRUE), FALSE) + 1
         IN [me EXCEPT !.input_buffer =
                           SubSeq(old_buffer, 1, new_cursor_pos)
                           \o SubSeq(old_buffer, end_pos + 1, Len(old_buffer)),
                       !.cursor_pos = new_cursor_pos]
    ELSE me

\* Enter that empties the line and leaves the cursor where it was
TakeLineKeepCursor(me) == [me EXCEPT !.input_buffer = <<>>]

\* Enter: the line is taken out of the buffer
TakeLine(me) ==
    [me EXCEPT !.input_buffer = <<>>,
               !.cursor_pos = IF me.input_buffer # <<>> THEN 0 ELSE @]

\* a key that only edits the line of session s
EditKey(s, me) ==
    /\ shell[s].chan = "open"
    /\ typed < MaxKeys
    /\ typed' = typed + 1
    /\ shell' = [shell EXCEPT ![s] = me]
    /\ UNCHANGED <<server, active_sessions, tasks, screen, posts, follows,
            ignored_users, call, delivered>>

\* the character loop on one printable character
InsertChar(me, char) ==
    [me EXCEPT !.input_buffer = SubSeq(@, 1, me.cursor_pos) \o <<char>>
                                  \o SubSeq(@, me.cursor_pos + 1, Len(@)),
               !.cursor_pos = @ + 1]

\* the character loop on a chunk of printable characters
RECURSIVE InsertChars(_, _)
InsertChars(me, data) ==
    IF data = <<>> THEN me
    ELSE InsertChars(InsertChar(me, Head(data)), Tail(data))

\* an escape sequence that no branch returns from: the chunk goes on to the
\* character loop, which ignores ESC and inserts the printable rest
FallThrough(s, rest) ==
    /\ shell' = [shell EXCEPT ![s] = InsertChars(@, rest)]
    /\ UNCHANGED <<tasks, screen>>

TypeChar(s, char) ==
    /\ Len(shell[s].input_buffer) < MaxLen
    /\ EditKey(s, InsertChar(shell[s], char))

Backspace(s) == EditKey(s, DeleteBeforeCursor(shell[s]))

CtrlU(s) == EditKey(s, KillLine(shell[s]))

CtrlW(s) == EditKey(s, KillWord(shell[s]))

ArrowLeft(s) ==
    EditKey(s, IF shell[s].cursor_pos > 0
               THEN [shell[s] EXCEPT !.cursor_pos = @ - 1] ELSE shell[s])

ArrowRight(s) ==
    EditKey(s, IF shell[s].cursor_pos < Len(shell[s].input_buffer)
               THEN [shell[s] EXCEPT !.cursor_pos = @ + 1] ELSE shell[s])

ArrowUp(s) == EditKey(s, Recall(ScrollUp(shell[s])))

ArrowDown(s) == EditKey(s, Recall(ScrollDown(shell[s])))

\* Enter: a line that is not empty is handled in a task of its own, an
\* empty one draws the prompt
EnterKey(s) ==
    LET line_to_process == shell[s].input_buffer
        parsed == ParseInputLine(line_to_process)
    IN /\ shell[s].chan = "open"
       /\ typed < MaxKeys
       /\ typed' = typed + 1
       /\ shell' = [shell EXCEPT ![s] = TakeLine(@)]
       /\ IF line_to_process # <<>>
          THEN /\ Room(1)
               /\ tasks' = Append(tasks,
                     [NewTask(FreshId(tasks), "cmd", s,
                              CommandWord(parsed.cmd), NoPage)
                         EXCEPT !.len = Len(Strip(parsed.raw_text)),
                                !.line = line_to_process])
               /\ UNCHANGED screen
          ELSE /\ screen' = [screen EXCEPT ![s].below = @ \o <<"prompt">>]
               /\ UNCHANGED tasks
       /\ UNCHANGED <<server, active_sessions, posts, follows, ignored_users, call, delivered>>

PageUp(s) ==
    /\ shell[s].chan = "open"
    /\ typed < MaxInputs
    /\ typed' = typed + 1
    /\ IF shell[s].is_watching_timeline
          \/ shell[s].last_timeline_eets_count # NoCount
       THEN IF shell[s].current_timeline_page > 1
            THEN PageKeyRender(s, shell[s].current_timeline_page - 1)
            ELSE PageKeyMessage(s, "first_page")
       ELSE FallThrough(s, <<"[", "5", "~">>)
    /\ UNCHANGED <<server, active_sessions, posts, follows, ignored_users, call, delivered>>

PageDown(s) ==
    /\ shell[s].chan = "open"
    /\ typed < MaxInputs
    /\ typed' = typed + 1
    /\ IF shell[s].is_watching_timeline
          \/ shell[s].last_timeline_eets_count # NoCount
       THEN IF /\ shell[s].last_timeline_eets_count # NoCount
               /\ shell[s].last_timeline_eets_count
                      >= shell[s].timeline_page_size
            THEN /\ shell[s].current_timeline_page < MaxPage
                 /\ PageKeyRender(s, shell[s].current_timeline_page + 1)
            ELSE PageKeyMessage(s, "last_page")
       ELSE FallThrough(s, <<"[", "6", "~">>)
    /\ UNCHANGED <<server, active_sessions, posts, follows, ignored_users, call, delivered>>

\* a body that takes the row of the prompt as well
ScrollableBodyHeightNoPrompt(h) == Max(1, h - 3 - 1)

\* max(1, term_height - header rows - footer row - prompt line)
ScrollableBodyHeight(h) == Max(1, h - 3 - 1 - 1)

\* with the sidebar on it scrolls to offset and the watch screen is rendered
\* again; with the sidebar off the key falls through
SidebarScroll(s, offset, rest) ==
    /\ shell[s].chan = "open"
    /\ typed < MaxInputs
    /\ typed' = typed + 1
    /\ IF shell[s].sidebar_enabled
       THEN /\ Room(1)
            /\ shell' = [shell EXCEPT ![s].sidebar_scroll_offset = offset]
            /\ CreateTask("render", s, "-", shell[s].current_timeline_page)
            /\ UNCHANGED screen
       ELSE FallThrough(s, rest)
    /\ UNCHANGED <<server, active_sessions, posts, follows, ignored_users, call, delivered>>

CtrlPageUp(s) ==
    SidebarScroll(s,
        Max(0, shell[s].sidebar_scroll_offset - SIDEBAR_SCROLL_STEP),
        <<"[", "5", ";", "5", "~">>)

\* a scroll down that is not held at the end of the list
CtrlPageDownUnclamped(s) ==
    SidebarScroll(s, shell[s].sidebar_scroll_offset + SIDEBAR_SCROLL_STEP,
        <<"[", "6", ";", "5", "~">>)

CtrlPageDown(s) ==
    SidebarScroll(s,
        Min(Max(0, shell[s].sidebar_full_user_list
                   - ScrollableBodyHeight(shell[s].term_height)),
            shell[s].sidebar_scroll_offset + SIDEBAR_SCROLL_STEP),
        <<"[", "6", ";", "5", "~">>)

\* ----------------------------------------------------- command handlers
ClearScreen(w) == WriteScreen(w, "idle")

\* ItterShell.close: if self._chan: self._chan.close()
Close(w) == IF w.me.chan = "open" THEN [w EXCEPT !.me.close_called = TRUE] ELSE w

\* an exit from watch mode that leaves the refresh task running
HandleExitCommandNoCancel(w, i) ==
    IF w.me.is_watching_timeline
    THEN LET w1 == [w EXCEPT !.me.is_watching_timeline = FALSE,
                             !.me.sidebar_enabled = FALSE]
         IN Finish(WriteScreen(w1, "idle"), i)
    ELSE Finish(Close(WriteBelow(w, <<"goodbye">>)), i)

\* handle_exit_command: leave watch mode, or say goodbye and close() (the
\* loss of the connection that follows is ShellConnectionLost)
HandleExitCommand(w, i) ==
    IF w.me.is_watching_timeline
    THEN LET w1 == [w EXCEPT !.me.is_watching_timeline = FALSE,
                             !.me.sidebar_enabled = FALSE,
                             !.tk = CancelTask(w.tk,
                                        w.me.timeline_auto_refresh_task)]
         IN Finish(WriteScreen(w1, "idle"), i)
    ELSE Finish(Close(WriteBelow(w, <<"goodbye">>)), i)

\* a length check that refuses the longest content allowed
HandleEetRefusesMax(w, i) ==
    LET content == w.tk[i].len IN
    IF w.me.username = NoUser THEN ReturnFromCommand(w, i)
    ELSE IF content = 0 THEN ReturnFromCommand(WriteBelow(w, <<"usage">>), i)
    ELSE IF content >= EET_MAX_LENGTH
    THEN ReturnFromCommand(WriteBelow(w, <<"too_long">>), i)
    ELSE [w EXCEPT !.tk[i].pc = "eet_post"]

\* handle_eet, up to the await of db_post_eet
HandleEet(w, i) ==
    LET content == w.tk[i].len IN
    IF w.me.username = NoUser THEN ReturnFromCommand(w, i)
    ELSE IF content = 0 THEN ReturnFromCommand(WriteBelow(w, <<"usage">>), i)
    ELSE IF content > EET_MAX_LENGTH
    THEN ReturnFromCommand(WriteBelow(w, <<"too_long">>), i)
    ELSE [w EXCEPT !.tk[i].pc = "eet_post"]

\* the target specifiers tried: none, mine, a user, a word too short for a
\* user name, a channel
Targets == {"", "mine", "@bob", "@x", "#tla"}

\* the filter type handle_timeline_and_watch and parse_target_filter give
TargetFilter(target) ==
    CASE target = "mine" -> "mine"
      [] target = "@bob" -> "user"
      [] target = "#tla" -> "channel"
      [] OTHER -> "all"

\* the 'Invalid user format' line
TargetRefused(target) == target = "@x"

\* handle_timeline_and_watch, up to the first await of its render
HandleTimelineAndWatch(w, i) ==
    LET t == w.tk[i]
        page == IF t.page = NoPage THEN 1 ELSE t.page
        is_watch_command == t.cmd = "watch"
        wf == [(IF TargetRefused(t.target)
                THEN WriteBelow(w, <<"invalid_target">>) ELSE w)
                  EXCEPT !.me.current_target_filter = TargetFilter(t.target)]
        w1 == [wf EXCEPT !.me.current_timeline_page = page,
                        !.me.sidebar_enabled = is_watch_command,
                        !.me.is_watching_timeline = is_watch_command]
    IN IF is_watch_command
       THEN RefreshWatchDisplay(
                [w1 EXCEPT !.me.sidebar_enabled = TRUE,
                           !.me.sidebar_scroll_offset = 0,
                           !.me.current_timeline_page = 1], i, 1, posts)
       ELSE RenderStatic(w1, i, page)

\* handle_clear
HandleClear(w, i) ==
    IF w.me.is_watching_timeline
    THEN RefreshWatchDisplay(ClearScreen(w), i, w.me.current_timeline_page, posts)
    ELSE Finish(ClearScreen(w), i)

\* int(): an optional sign and decimal digits, or ValueError
Digits == {"0", "1", "3"}

DigitValue(char) == CASE char = "0" -> 0 [] char = "1" -> 1 [] char = "3" -> 3

Unsigned(tok) == IF tok # <<>> /\ Head(tok) \in {"-", "+"} THEN Tail(tok) ELSE tok

IsInt(tok) ==
    /\ Unsigned(tok) # <<>>
    /\ \A k \in DOMAIN Unsigned(tok) : Unsigned(tok)[k] \in Digits

RECURSIVE Decimal(_)
Decimal(ds) ==
    IF ds = <<>> THEN 0
    ELSE 10 * Decimal(SubSeq(ds, 1, Len(ds) - 1)) + DigitValue(ds[Len(ds)])

IntOf(tok) == IF Head(tok) = "-" THEN 0 - Decimal(Unsigned(tok))
            ELSE Decimal(Unsigned(tok))

\* a page size setting without the upper bound
HandlePagesizeSettingNoMax(w, i) ==
    LET args == w.tk[i].arg IN
    IF args = <<>> THEN WriteBelow(w, <<"pagesize_is">>)
    ELSE IF ~IsInt(args) THEN WriteBelow(w, <<"not_a_number">>)
    ELSE IF MIN_TIMELINE_PAGE_SIZE <= IntOf(args)
    THEN WriteBelow([w EXCEPT !.me.timeline_page_size = IntOf(args)],
                    <<"pagesize_set">>)
    ELSE WriteBelow(w, <<"pagesize_range">>)

\* _handle_pagesize_setting
HandlePagesizeSetting(w, i) ==
    LET args == w.tk[i].arg IN
    IF args = <<>> THEN WriteBelow(w, <<"pagesize_is">>)
    ELSE IF ~IsInt(args) THEN WriteBelow(w, <<"not_a_number">>)
    ELSE IF /\ MIN_TIMELINE_PAGE_SIZE <= IntOf(args)
            /\ IntOf(args) <= MAX_TIMELINE_PAGE_SIZE
    THEN WriteBelow([w EXCEPT !.me.timeline_page_size = IntOf(args)],
                    <<"pagesize_set">>)
    ELSE WriteBelow(w, <<"pagesize_range">>)

\* handle_settings, for the lines `settings pagesize [n]`
HandleSettings(w, i) == ReturnFromCommand(HandlePagesizeSetting(w, i), i)

\* follow, unfollow, ignore and unignore of a user
RelationCommands == {"follow", "unfollow", "ignore", "unignore"}

\* handle_follow .. handle_unignore with `@target`, up to the first await of
\* the store function
HandleRelation(w, i) ==
    IF w.me.username = NoUser THEN ReturnFromCommand(w, i)
    ELSE IF w.tk[i].cmd = "ignore" /\ w.tk[i].target = w.me.username
    THEN ReturnFromCommand(WriteBelow(w, <<"cannot_ignore_yourself">>), i)
    ELSE [w EXCEPT !.tk[i].pc = "rel_check"]

\* _handle_command_line, up to the first await of the handler
HandleCommandLine(w, i) ==
    LET cmd == w.tk[i].cmd
        line == w.tk[i].line
        w1 == IF line # <<>>
              THEN [w EXCEPT !.me = HistoryAdd(@, HistoryLine(line))]
              ELSE w
        w0 == IF cmd \in {"timeline", "watch"} THEN w1
              ELSE [w1 EXCEPT !.me.last_timeline_eets_count = NoCount]
    IN CASE cmd = "blank" -> Finish(Prompt(w), i)
         [] cmd = "eet" -> HandleEet(w0, i)
         [] cmd \in {"timeline", "watch"} -> HandleTimelineAndWatch(w0, i)
         [] cmd = "exit" -> HandleExitCommand(w0, i)
         [] cmd = "clear" -> HandleClear(w0, i)
         [] cmd = "settings" -> HandleSettings(w0, i)
         [] cmd \in RelationCommands -> HandleRelation(w0, i)
         \* help: the banner and the help text go below what is shown
         [] cmd = "help" -> ReturnFromCommand(WriteBelow(w0, <<"help">>), i)
         [] OTHER -> ReturnFromCommand(WriteBelow(w0, <<"unknown">>), i)

\* handle_new_post_realtime, up to the first await of its render
HandleNewPostRealtime(w, i) ==
    IF ~w.me.is_watching_timeline \/ w.me.username = NoUser
    THEN Finish(w, i)
    ELSE RefreshWatchDisplay(w, i, 1, posts)

\* _handle_registration_flow, up to its await of db_create_user (a shell of
\* the registration flow is made only with a public key)
HandleRegistrationFlow(w, i) ==
    IF w.me.reg_username_candidate = <<>>
    THEN Finish(Close(WriteBelow(w, <<"error">>)), i)
    ELSE [w EXCEPT !.tk[i].pc = "reg_create"]

\* --------------------------------------------------- the steps of a task
\* the first step of a task: tasks start in the order of their creation
StartTask(i) ==
    /\ i \in DOMAIN tasks
    /\ tasks[i].pc = "new"
    /\ \A j \in 1..(i - 1) : tasks[j].pc # "new"
    /\ LET t == tasks[i]
           w == Frame(t.sess)
       IN Commit(t.sess,
            CASE t.cancelled -> Finish(w, i)
              [] t.kind = "cmd" -> HandleCommandLine(w, i)
              [] t.kind = "render" -> RefreshWatchDisplay(w, i, t.page, posts)
              [] t.kind = "static" -> RenderStatic(w, i, t.page)
              [] t.kind = "notif" -> HandleNewPostRealtime(w, i)
              [] t.kind = "reg" -> HandleRegistrationFlow(w, i)
              [] OTHER ->
                    \* timeline_refresh_loop: while shell._is_watching_timeline
                    IF w.me.is_watching_timeline
                    THEN [w EXCEPT !.tk[i].pc = "sleep"]
                    ELSE Finish(w, i))
    /\ UNCHANGED <<server, active_sessions, posts, follows, ignored_users, call,
            delivered, typed>>

\* the end of refresh_watch_display: the screen, or the except branch
WriteOrFail(w, i, ok) ==
    IF ok THEN WriteWatchAndReturn(w, i)
    ELSE AfterRefresh(WriteScreen(w, "error"), i)

\* refresh_watch_display: db_get_filtered_timeline_posts answers n posts
FetchReturns(i, n, ok) ==
    /\ i \in DOMAIN tasks
    /\ tasks[i].pc = "rw_fetch"
    /\ ~tasks[i].cancelled
    /\ LET w == [Frame(tasks[i].sess) EXCEPT !.me.last_timeline_eets_count = n]
       IN Commit(tasks[i].sess,
            IF ~w.me.sidebar_enabled THEN WriteOrFail(w, i, ok)
            ELSE IF w.me.username = NoUser \/ RegisteredNames = {}
            THEN WriteOrFail([w EXCEPT !.me.sidebar_full_user_list = 0], i, ok)
            ELSE [w EXCEPT !.tk[i].pc = "rw_side",
                           !.tk[i].online = Cardinality(RegisteredNames)])
    /\ UNCHANGED <<server, active_sessions, posts, follows, ignored_users, call,
            delivered, typed>>

\* _update_sidebar_full_user_list: db_get_user_following answers
FollowingReturns(i, ok) ==
    /\ i \in DOMAIN tasks
    /\ tasks[i].pc = "rw_side"
    /\ ~tasks[i].cancelled
    /\ LET w == Frame(tasks[i].sess)
       IN Commit(tasks[i].sess,
            WriteOrFail(IF ok
                        THEN [w EXCEPT !.me.sidebar_full_user_list = tasks[i].online]
                        ELSE w, i, ok))
    /\ UNCHANGED <<server, active_sessions, posts, follows, ignored_users, call,
            delivered, typed>>

\* render_and_display_timeline: the fetch answers n posts, or raises and
\* leaves an error line below the screen
StaticFetchReturns(i, n, ok) ==
    /\ i \in DOMAIN tasks
    /\ tasks[i].pc = "st_fetch"
    /\ LET w == Frame(tasks[i].sess)
       IN Commit(tasks[i].sess,
            IF ok
            THEN [w EXCEPT !.me.last_timeline_eets_count = n, !.tk[i].pc = "st_fmt"]
            ELSE AfterStatic(WriteBelow(w, <<"timeline_error">>), i))
    /\ UNCHANGED <<server, active_sessions, posts, follows, ignored_users, call,
            delivered, typed>>

\* render_and_display_timeline: the formatter thread answers
FormatReturns(i) ==
    /\ i \in DOMAIN tasks
    /\ tasks[i].pc = "st_fmt"
    /\ LET t == tasks[i]
           w == Frame(t.sess)
       IN Commit(t.sess,
            AfterStatic(WriteScreen(w, "static"), i))
    /\ UNCHANGED <<server, active_sessions, posts, follows, ignored_users, call,
            delivered, typed>>

\* handle_eet: db_post_eet answers, or raises into _handle_command_line
PostReturns(i, ok) ==
    /\ i \in DOMAIN tasks
    /\ tasks[i].pc = "eet_post"
    /\ ok => posts < MaxPosts
    /\ posts' = IF ok THEN posts + 1 ELSE posts
    /\ LET w == Frame(tasks[i].sess)
       IN Commit(tasks[i].sess,
            IF ~ok THEN ReturnFromCommand(WriteBelow(w, <<"error">>), i)
            ELSE IF w.me.is_watching_timeline
            THEN RefreshWatchDisplay(WriteBelow(w, <<"posted">>), i, 1, posts + 1)
            ELSE ReturnFromCommand(WriteBelow(w, <<"posted">>), i))
    /\ UNCHANGED <<follows, ignored_users, call, server, active_sessions, delivered, typed>>

\* the users table
Users == AllNames

\* db_is_following / db_is_ignoring: the row is there; False as well when
\* the query raises
IsIn(table, user, target, ok) == ok /\ <<user, target>> \in table

\* store functions that delete without looking whether the row is there
RelationErrorUnchecked(cmd, user, target, ok) ==
    IF user \notin Users \/ target \notin Users THEN "user_not_found"
    ELSE IF cmd \in {"follow", "unfollow", "ignore"} /\ user = target
    THEN "yourself"
    ELSE CASE cmd = "follow" ->
                  IF IsIn(follows, user, target, ok)
                  THEN "already_following" ELSE "none"
           [] cmd = "ignore" ->
                  IF IsIn(ignored_users, user, target, ok)
                  THEN "already_ignoring" ELSE "none"
           [] OTHER -> "none"

\* the ValueError of db_follow_user .. db_unignore_user, or "none"
RelationError(cmd, user, target, ok) ==
    IF user \notin Users \/ target \notin Users THEN "user_not_found"
    ELSE IF cmd \in {"follow", "unfollow", "ignore"} /\ user = target
    THEN "yourself"
    ELSE CASE cmd = "follow" ->
                  IF IsIn(follows, user, target, ok)
                  THEN "already_following" ELSE "none"
           [] cmd = "unfollow" ->
                  IF ~IsIn(follows, user, target, ok)
                  THEN "not_following" ELSE "none"
           [] cmd = "ignore" ->
                  IF IsIn(ignored_users, user, target, ok)
                  THEN "already_ignoring" ELSE "none"
           [] cmd = "unignore" ->
                  IF ~IsIn(ignored_users, user, target, ok)
                  THEN "not_ignoring" ELSE "none"

\* db_follow_user .. db_unignore_user: the lookups and the is-following or
\* is-ignoring query have answered; a ValueError goes to
\* _handle_command_line, which writes it
RelationCheckReturns(i, ok) ==
    /\ i \in DOMAIN tasks
    /\ tasks[i].pc = "rel_check"
    /\ LET t == tasks[i]
           w == Frame(t.sess)
           error == RelationError(t.cmd, w.me.username, t.target, ok)
       IN Commit(t.sess,
            IF error # "none"
            THEN ReturnFromCommand(WriteBelow(w, <<error>>), i)
            ELSE [w EXCEPT !.tk[i].pc = "rel_write"])
    /\ UNCHANGED <<server, active_sessions, posts, follows, ignored_users, call,
                   delivered, typed>>

\* the insert or the delete has answered
RelationWriteReturns(i) ==
    /\ i \in DOMAIN tasks
    /\ tasks[i].pc = "rel_write"
    /\ LET t == tasks[i]
           w == Frame(t.sess)
           row == <<w.me.username, t.target>>
       IN /\ follows' = CASE t.cmd = "follow" -> follows \cup {row}
                           [] t.cmd = "unfollow" -> follows \ {row}
                           [] OTHER -> follows
          /\ ignored_users' =
                 CASE t.cmd = "ignore" -> ignored_users \cup {row}
                   [] t.cmd = "unignore" -> ignored_users \ {row}
                   [] OTHER -> ignored_users
          /\ Commit(t.sess, ReturnFromCommand(WriteBelow(w, <<t.cmd>>), i))
    /\ UNCHANGED <<server, active_sessions, posts, call, delivered, typed>>

\* timeline_refresh_loop: asyncio.sleep returns
TimerFires(i) ==
    /\ i \in DOMAIN tasks
    /\ tasks[i].pc = "sleep"
    /\ ~tasks[i].cancelled
    /\ LET w == Frame(tasks[i].sess)
       IN Commit(tasks[i].sess,
            IF w.me.is_watching_timeline
            THEN RefreshWatchDisplay(w, i, 1, posts)
            ELSE Finish(w, i))
    /\ UNCHANGED <<server, active_sessions, posts, follows, ignored_users, call,
            delivered, typed>>

\* a cancelled task is resumed with CancelledError and ends
CancelDelivered(i) ==
    /\ i \in DOMAIN tasks
    /\ tasks[i].cancelled
    /\ tasks[i].pc # "new"
    /\ Commit(tasks[i].sess, Finish(Frame(tasks[i].sess), i))
    /\ UNCHANGED <<server, active_sessions, posts, follows, ignored_users, call,
            delivered, typed>>

\* ------------------------------------------------------- the post feed
\* a row is inserted into posts by another process
ExternalPost ==
    /\ posts < MaxPosts
    /\ posts' = posts + 1
    /\ UNCHANGED <<follows, ignored_users, call, shell, server, active_sessions, tasks, screen, delivered, typed>>

Orders(S) ==
    {q \in [1..Cardinality(S) -> S] :
        \A a, b \in 1..Cardinality(S) : a # b => q[a] # q[b]}

\* the sessions of the registry that are watching
RegisteredWatchers ==
    {s \in Sessions : /\ \E u \in Usernames : active_sessions[u] = s
                      /\ shell[s].is_watching_timeline}

\* the task of handler_method(new_post_record) for session s; until its
\* fetch begins, ver holds the number of the row the record is about
NewPostTask(tk, s) ==
    [NewTask(FreshId(tk), "notif", s, "-", 1) EXCEPT !.ver = delivered + 1]

\* a dispatcher that creates the task of the first session only
NewPostTasksFirstOnly(tk, order) ==
    IF order = <<>> THEN tk
    ELSE Append(tk, NewPostTask(tk, Head(order)))

\* asyncio.create_task(handler_method(new_post_record)) for each of them:
\* one task per session, none of them awaited
RECURSIVE NewPostTasks(_, _)
NewPostTasks(tk, order) ==
    IF order = <<>> THEN tk
    ELSE NewPostTasks(Append(tk, NewPostTask(tk, Head(order))), Tail(order))

\* handle_global_new_post_event
HandleGlobalNewPostEvent ==
    /\ delivered < posts
    /\ delivered' = delivered + 1
    /\ \E order \in Orders(RegisteredWatchers) :
          /\ Room(Len(order))
          /\ tasks' = NewPostTasks(tasks, order)
    /\ UNCHANGED <<shell, server, active_sessions, screen, posts, follows,
            ignored_users, call, typed>>

\* ------------------------------------------------------- specification
Next ==
    \/ \E s \in Sessions, u \in Usernames : Login(s, u)
    \/ \E s \in Sessions : ConnectionMade(s)
    \/ \E s \in Sessions : ShellConnectionLost(s)
    \/ \E s \in Sessions : ServerConnectionLost(s)
    \/ \E s \in Sessions, cmd \in Commands, tok \in PageTokens,
          n \in ContentLengths :
          /\ tok # NoPage => cmd \in {"timeline", "watch"}
          /\ n # 0 => cmd = "eet"
          /\ SubmitLine(s, cmd, tok, n)
    \/ \E s \in Sessions : PageUp(s)
    \/ \E s \in Sessions : PageDown(s)
    \/ \E s \in Sessions : CtrlPageUp(s)
    \/ \E s \in Sessions : CtrlPageDown(s)
    \/ \E i \in 1..MaxTasks : StartTask(i)
    \/ \E i \in 1..MaxTasks, n \in FetchCounts, ok \in BOOLEAN : FetchReturns(i, n, ok)
    \/ \E i \in 1..MaxTasks, ok \in BOOLEAN : FollowingReturns(i, ok)
    \/ \E i \in 1..MaxTasks, n \in FetchCounts, ok \in BOOLEAN :
          StaticFetchReturns(i, n, ok)
    \/ \E i \in 1..MaxTasks : FormatReturns(i)
    \/ \E i \in 1..MaxTasks, ok \in BOOLEAN : PostReturns(i, ok)
    \/ \E i \in 1..MaxTasks : TimerFires(i)
    \/ \E i \in 1..MaxTasks : CancelDelivered(i)
    \/ ExternalPost
    \/ HandleGlobalNewPostEvent

Spec == Init /\ [][Next]_vars

\* ------------------------------------- two sessions that are watching
\* the state after connection n logged in as the n-th username and typed
\* watch: the first render is on the screen and the refresh task sleeps
\* the session whose store calls hang or raise: the first connection
Faulty == CHOOSE s \in Sessions : \A r \in Sessions : s <= r

UserOf(s) == IF s = 1 THEN "alice" ELSE "bob"

WatchingShell(s) ==
    [NewShell EXCEPT !.chan = "open",
                     !.username = UserOf(s),
                     !.is_watching_timeline = TRUE,
                     !.sidebar_enabled = TRUE,
                     !.timeline_auto_refresh_task = s,
                     !.last_timeline_eets_count = 0]

\* connections 1..n are watching, the others have not been accepted
WatchingInit(n) ==
    /\ shell = [s \in Sessions |-> IF s <= n THEN WatchingShell(s) ELSE NewShell]
    /\ server = [s \in Sessions |->
                   LoggedIn(IF s <= n THEN UserOf(s) ELSE NoUser)]
    /\ active_sessions = [u \in AllNames |->
                             IF \E s \in 1..n : UserOf(s) = u
                             THEN CHOOSE s \in 1..n : UserOf(s) = u
                             ELSE NoSession]
    /\ tasks = [s \in 1..n |->
                   [NewTask(s, "loop", s, "-", 0) EXCEPT !.pc = "sleep"]]
    /\ screen = [s \in Sessions |->
                   IF s <= n
                   THEN [BlankScreen EXCEPT !.kind = "watch", !.dpage = 1, !.title = 1,
                                            !.watching = TRUE]
                   ELSE BlankScreen]
    /\ posts = 0
    /\ follows = {}
    /\ ignored_users = {}
    /\ call = NoCall
    /\ delivered = 0
    /\ typed = MaxInputs - 1      \* one more line or key is received

\* a step of task i in which the store, the timer or the formatter answers
Answer(i) ==
    \/ \E n \in FetchCounts : FetchReturns(i, n, TRUE)
    \/ FollowingReturns(i, TRUE)
    \/ \E n \in FetchCounts, ok \in BOOLEAN : StaticFetchReturns(i, n, ok)
    \/ FormatReturns(i)
    \/ \E ok \in BOOLEAN : PostReturns(i, ok)
    \/ TimerFires(i)
    \/ CancelDelivered(i)

\* the event loop runs the task whose identity is id
RunTask(id) ==
    \E i \in 1..MaxTasks :
        /\ i \in DOMAIN tasks
        /\ tasks[i].id = id
        /\ StartTask(i) \/ Answer(i)

\* the same, but the store never answers a task of the faulty session
RunTaskDegraded(id) ==
    \E i \in 1..MaxTasks :
        /\ i \in DOMAIN tasks
        /\ tasks[i].id = id
        /\ StartTask(i) \/ (tasks[i].sess # Faulty /\ Answer(i))

\* a render of the faulty session raises
RenderRaises(i) ==
    /\ i \in DOMAIN tasks
    /\ tasks[i].sess = Faulty
    /\ \/ \E n \in FetchCounts : FetchReturns(i, n, FALSE)
       \/ FollowingReturns(i, FALSE)

\* a session that is watching: it may leave watch mode, turn a page or
\* lose its connection while posts arrive
FairNext ==
    \/ \E s \in Sessions : ShellConnectionLost(s)
    \/ \E s \in Sessions, cmd \in {"exit", "timeline"} : SubmitLine(s, cmd, NoPage, 0)
    \/ \E s \in Sessions : PageDown(s)
    \/ ExternalPost
    \/ HandleGlobalNewPostEvent
    \/ \E id \in 1..MaxTasks : RunTask(id)

\* every task that can run is run in the end: the loop's ready queue is
\* FIFO, and the store, the timer and the formatter thread answer
FairSpec ==
    /\ WatchingInit(1)
    /\ [][FairNext]_vars
    /\ \A id \in 1..MaxTasks : WF_vars(RunTask(id))

\* two sessions that are watching while posts arrive: the store calls of
\* the faulty one raise or hang, its timer still fires
DegradedNext ==
    \/ \E s \in Sessions : ShellConnectionLost(s)
    \/ ExternalPost
    \/ HandleGlobalNewPostEvent
    \/ \E id \in 1..MaxTasks : RunTaskDegraded(id)
    \/ \E i \in 1..MaxTasks : TimerFires(i)
    \/ \E i \in 1..MaxTasks : CancelDelivered(i)
    \/ \E i \in 1..MaxTasks : RenderRaises(i)

\* every task is started, and the tasks of the sessions that are not
\* faulty get their answers; nothing is promised to the faulty session
\* beyond the start of its tasks
DegradedSpec ==
    /\ WatchingInit(2)
    /\ [][DegradedNext]_vars
    /\ \A id \in 1..MaxTasks : WF_vars(RunTaskDegraded(id))

\* ---------------------------------------------------------- properties
RefreshTasks(s) ==
    {i \in DOMAIN tasks : tasks[i].kind = "loop" /\ tasks[i].sess = s}

\* the refresh tasks of s that are neither finished nor cancelled
LiveRefreshTasks(s) == {i \in RefreshTasks(s) : ~tasks[i].cancelled}

\* the tasks of s between the start of a fetch and the write of its screen
Rendering(s) ==
    {i \in DOMAIN tasks : tasks[i].sess = s /\ InRender(tasks[i])
                          /\ ~tasks[i].cancelled}

Registered(s) == \E u \in Usernames : active_sessions[u] = s

\* C1: whenever a session is watching, its sidebar is enabled and its
\* refresh task has been created, at every step of the watch command
C1_WatchingHasSidebarAndTask ==
    \A s \in Sessions :
        shell[s].chan = "open" /\ shell[s].is_watching_timeline
            => /\ shell[s].sidebar_enabled
               /\ shell[s].timeline_auto_refresh_task # NoTask

\* C2: once a session has left watch mode, no render of the periodic
\* refresh task writes a watch screen to its terminal
C2_NoTimerScreenOutsideWatch ==
    \A s \in Sessions :
        ~(screen[s].kind = "watch" /\ screen[s].timer /\ ~screen[s].watching)

\* C3: once the connection of a session is closed, the registry has no
\* entry for it and no refresh task of it is, or becomes, running
C3_ClosedSessionIsGone ==
    \A s \in Sessions :
        shell[s].chan = "lost" => ~Registered(s) /\ LiveRefreshTasks(s) = {}

\* C4: a session has at most one refresh task that is neither finished nor
\* cancelled: the previous one is cancelled before its replacement exists
C4_OneLiveRefreshTask ==
    \A s \in Sessions : Cardinality(LiveRefreshTasks(s)) <= 1

C4_Replaced ==
    \E s \in Sessions :
        /\ LiveRefreshTasks(s) # {}
        /\ RefreshTasks(s) \ LiveRefreshTasks(s) # {}

\* C5: a session has a live refresh task only while it is watching
C5_RefreshTaskOnlyWhileWatching ==
    \A s \in Sessions : LiveRefreshTasks(s) # {} => shell[s].is_watching_timeline

\* the sessions the dispatcher has just created a render task for
JustNotified ==
    {tasks'[k].sess : k \in (Len(tasks) + 1)..Len(tasks')}

\* C6: a new-post notification schedules a render for every connected
\* session that is watching, and for no session that is not
C6_NotifiesExactlyTheWatchers ==
    [][delivered' # delivered =>
          \A s \in Sessions :
              s \in JustNotified
                  <=> shell[s].chan = "open" /\ shell[s].is_watching_timeline]_vars

\* the render task of notification v for session s waits to be started
Notified(s, v) ==
    \E i \in DOMAIN tasks : /\ tasks[i].kind = "notif" /\ tasks[i].sess = s
                            /\ tasks[i].pc = "new" /\ tasks[i].ver = v

\* the terminal of s shows page 1 as fetched when row v was in the table
Shown(s, v) ==
    screen[s].kind = "watch" /\ screen[s].dpage = 1 /\ screen[s].ver >= v

Stays(s) == shell[s].chan = "open" /\ shell[s].is_watching_timeline

\* C7: the dispatcher creates one render task for each watching session of
\* the registry in one step, without waiting for any of them, and a render
\* of the faulty session that raises or hangs does not keep the render of
\* another session from reaching its terminal
C7_RendersAreIndependent ==
    /\ [][delivered' # delivered =>
             \A s \in RegisteredWatchers :
                 Cardinality({k \in (Len(tasks) + 1)..Len(tasks') :
                                 tasks'[k].sess = s}) = 1]_vars
    /\ \A s \in Sessions \ {Faulty}, v \in 1..MaxPosts :
           Notified(s, v) ~> (Shown(s, v) \/ ~Stays(s))

C7_OtherRenderedWhileFaultyHangs ==
    /\ \E i \in DOMAIN tasks : /\ tasks[i].kind = "notif"
                               /\ tasks[i].sess = Faulty
                               /\ tasks[i].pc = "rw_fetch"
    /\ \E s \in Sessions \ {Faulty} :
           Stays(s) /\ Shown(s, 1) /\ ~screen[s].timer

\* C8: under fair scheduling, a notification delivered to a session that
\* stays connected and watching leads to a terminal that shows page 1 with
\* the posts fetched after the new post was created
C8_NotificationReachesTheTerminal ==
    \A s \in Sessions, v \in 1..MaxPosts :
        Notified(s, v) ~> (Shown(s, v) \/ ~Stays(s))

C8_ShownAfterNotification ==
    \E s \in Sessions :
        /\ delivered >= 1 /\ Stays(s) /\ Shown(s, 1) /\ ~screen[s].timer
        /\ \A i \in DOMAIN tasks : tasks[i].kind # "notif"

\* C9: the renders of one session are serialized: no render starts its
\* fetch while another render of the session has fetched and not written
C9_RendersSerialized ==
    \A s \in Sessions : Cardinality(Rendering(s)) <= 1

\* C10: every entry of the registry refers to a session whose connection
\* is still open
C10_RegistryEntriesAreOpen ==
    \A u \in Usernames :
        active_sessions[u] # NoSession => shell[active_sessions[u]].chan = "open"

C10_SameNameClosedAndOpen ==
    \E s, r \in Sessions :
        /\ s # r
        /\ shell[s].chan = "lost" /\ shell[s].username = shell[r].username
        /\ active_sessions[shell[r].username] = r

\* ------------------------------------------------------------ pagination
\* C12: the timeline page of every session is at least 1
C12_CurrentPageIsPositive ==
    \A s \in Sessions : shell[s].current_timeline_page >= 1

\* the line of task i, a timeline or watch command, starts to be handled
Dispatched(i) ==
    /\ i \in DOMAIN tasks /\ i \in DOMAIN tasks'
    /\ tasks[i].kind = "cmd" /\ tasks[i].cmd \in {"timeline", "watch"}
    /\ tasks[i].pc = "new" /\ ~tasks[i].cancelled
    /\ tasks'[i].id = tasks[i].id /\ tasks'[i].pc # "new"

\* the page a line with page token tok asks for
ParsedPage(tok) == IF tok = NoPage THEN 1 ELSE tok

\* C13: a timeline or watch command sets the page to the number that ends
\* its arguments, or to 1 when there is none, and its first render fetches
\* that page
C13_CommandSetsAndFetchesParsedPage ==
    [][\A i \in 1..MaxTasks :
          Dispatched(i) =>
              /\ shell'[tasks[i].sess].current_timeline_page
                     = ParsedPage(tasks[i].page)
              /\ tasks'[i].pc \in {"rw_fetch", "st_fetch"}
              /\ tasks'[i].page = ParsedPage(tasks[i].page)]_vars

\* the page key of session s wrote the boundary line and the prompt, kept
\* the page and created no task
Refused(s, text) ==
    /\ screen'[s].below = screen[s].below \o <<text, "prompt">>
    /\ shell'[s].current_timeline_page = shell[s].current_timeline_page
    /\ tasks' = tasks

\* the page key of session s moved the page by d and created one render
Moved(s, d) ==
    /\ shell'[s].current_timeline_page = shell[s].current_timeline_page + d
    /\ Len(tasks') = Len(tasks) + 1
    /\ SubSeq(tasks', 1, Len(tasks)) = tasks
    /\ LET t == tasks'[Len(tasks')]
       IN /\ t.kind \in {"render", "static"} /\ t.sess = s /\ t.pc = "new"
          /\ t.page = shell'[s].current_timeline_page
    /\ screen'[s] = screen[s]

\* session s is in watch mode, or in static mode after a timeline render
Paged(s) ==
    shell[s].is_watching_timeline \/ shell[s].last_timeline_eets_count # NoCount

C18_ErrorLineThenPrompt ==
    [][\A i \in 1..MaxTasks :
          (PostReturns(i, FALSE) /\ shell[tasks[i].sess].chan = "open") =>
              screen'[tasks[i].sess].below
                  = screen[tasks[i].sess].below \o <<"error", "prompt">>]_vars

\* the create-post calls that have not returned
PostCalls(tk) == {k \in DOMAIN tk : tk[k].pc = "eet_post"}

\* the error lines among what is written below the screen
ErrorLines(q) == {k \in DOMAIN q : q[k] \in {"usage", "too_long", "error"}}

\* C20: an eet of exactly the maximum length issues one create-post call;
\* an empty one and one above the maximum write an error line and issue no
\* call
C20_LengthBoundary ==
    [][\A i \in 1..MaxTasks :
          (/\ StartTask(i) /\ tasks[i].kind = "cmd" /\ tasks[i].cmd = "eet"
           /\ ~tasks[i].cancelled
           /\ shell[tasks[i].sess].chan = "open") =>
              LET s == tasks[i].sess IN
              IF tasks[i].len = EET_MAX_LENGTH
              THEN /\ Cardinality(PostCalls(tasks'))
                         = Cardinality(PostCalls(tasks)) + 1
                   /\ tasks'[i].pc = "eet_post"
                   /\ ErrorLines(screen'[s].below) = ErrorLines(screen[s].below)
              ELSE (tasks[i].len = 0 \/ tasks[i].len >= EET_MAX_LENGTH + 1) =>
                   /\ PostCalls(tasks') = PostCalls(tasks) \ {i}
                   /\ Cardinality(ErrorLines(screen'[s].below))
                         = Cardinality(ErrorLines(screen[s].below)) + 1]_vars

\* the create-post call of an eet of the maximum length is under way, and
\* a longer one has been refused
C20_MaxLengthPosted ==
    /\ \E i \in DOMAIN tasks :
           tasks[i].pc = "eet_post" /\ tasks[i].len = EET_MAX_LENGTH
    /\ \E s \in Sessions, k \in 1..MaxInputs :
           k \in DOMAIN screen[s].below /\ screen[s].below[k] = "too_long"

\* ------------------------------------------------------------ the sidebar
\* a terminal of SmallTermHeight rows shows three rows of the sidebar list
SmallTermHeight == 8

\* connection 1 watches on a small terminal with every user of AllNames
\* on line and listed; connection 2 is idle
SidebarInit ==
    /\ shell = [s \in Sessions |->
                  IF s = 1
                  THEN [WatchingShell(s) EXCEPT
                            !.term_height = SmallTermHeight,
                            !.sidebar_full_user_list = Cardinality(AllNames)]
                  ELSE [NewShell EXCEPT !.chan = "open",
                                        !.username = UserOf(s)]]
    /\ server = [s \in Sessions |-> LoggedIn(UserOf(s))]
    /\ active_sessions = [u \in AllNames |->
                             IF \E s \in Sessions : UserOf(s) = u
                             THEN CHOOSE s \in Sessions : UserOf(s) = u
                             ELSE Elsewhere]
    /\ tasks = <<[NewTask(1, "loop", 1, "-", 0) EXCEPT !.pc = "sleep"]>>
    /\ screen = [s \in Sessions |->
                   IF s = 1
                   THEN [BlankScreen EXCEPT !.kind = "watch", !.dpage = 1, !.title = 1,
                                            !.watching = TRUE]
                   ELSE [BlankScreen EXCEPT !.kind = "idle"]]
    /\ posts = 0
    /\ follows = {}
    /\ ignored_users = {}
    /\ call = NoCall
    /\ delivered = 0
    /\ typed = 0

SidebarNext ==
    \/ \E s \in Sessions : CtrlPageUp(s)
    \/ \E s \in Sessions : CtrlPageDown(s)
    \/ \E u \in Others : OtherLeaves(u)
    \/ \E s \in Sessions : ShellConnectionLost(s)
    \/ \E i \in 1..MaxTasks : StartTask(i)
    \/ \E i \in 1..MaxTasks, n \in FetchCounts : FetchReturns(i, n, TRUE)
    \/ \E i \in 1..MaxTasks : FollowingReturns(i, TRUE)
    \/ \E i \in 1..MaxTasks : CancelDelivered(i)

SidebarSpec == SidebarInit /\ [][SidebarNext]_vars

\* max(1, terminal_height - 5)
VisibleRows(s) == Max(1, shell[s].term_height - 5)

\* the last offset that still shows a full body of the list
MaxScroll(s) == Max(0, shell[s].sidebar_full_user_list - VisibleRows(s))

\* C14: the scroll offset of the sidebar lies between 0 and the length of
\* the cached user list less the visible rows, also after a render has
\* rebuilt the list with fewer users
C14_OffsetWithinList ==
    \A s \in Sessions :
        /\ 0 <= shell[s].sidebar_scroll_offset
        /\ shell[s].sidebar_scroll_offset <= MaxScroll(s)

\* C15: with the sidebar enabled, Ctrl+PageDown sets the offset to
\* min(max(0, len(list) - visible rows), offset + step) and Ctrl+PageUp to
\* max(0, offset - step), both without changing the timeline page; with 5
\* listed users and 3 visible rows the offset never exceeds 2
C15_ScrollIsClamped ==
    /\ [][\A s \in Sessions :
             /\ CtrlPageDown(s) =>
                   /\ shell'[s].sidebar_scroll_offset
                         = Min(MaxScroll(s),
                               shell[s].sidebar_scroll_offset + SIDEBAR_SCROLL_STEP)
                   /\ shell'[s].current_timeline_page
                         = shell[s].current_timeline_page
             /\ CtrlPageUp(s) =>
                   /\ shell'[s].sidebar_scroll_offset
                         = Max(0, shell[s].sidebar_scroll_offset
                                  - SIDEBAR_SCROLL_STEP)
                   /\ shell'[s].current_timeline_page
                         = shell[s].current_timeline_page]_vars
    /\ [](\A s \in Sessions :
             (shell[s].sidebar_full_user_list = 5 /\ VisibleRows(s) = 3)
                 => shell[s].sidebar_scroll_offset <= 2)

\* five users are listed, three rows are visible, and the list has been
\* scrolled down to its end
C15_ScrolledToTheEnd ==
    \E s \in Sessions :
        /\ shell[s].sidebar_enabled
        /\ shell[s].sidebar_full_user_list = 5 /\ VisibleRows(s) = 3
        /\ shell[s].sidebar_scroll_offset = 2
        /\ typed >= 2

\* --------------------------------------------------------- the line editor
\* connection 1 has logged in and is idle or watching; its line is empty
EditorInit ==
    \E watching \in BOOLEAN :
        /\ shell = [s \in Sessions |->
                      IF s # 1 THEN NewShell
                      ELSE IF watching THEN WatchingShell(s)
                      ELSE [NewShell EXCEPT !.chan = "open",
                                            !.username = UserOf(s)]]
        /\ server = [s \in Sessions |->
                       LoggedIn(IF s = 1 THEN UserOf(s) ELSE NoUser)]
        /\ active_sessions = [u \in AllNames |->
                                 IF u = UserOf(1) THEN 1 ELSE NoSession]
        /\ tasks = IF watching
                   THEN <<[NewTask(1, "loop", 1, "-", 0) EXCEPT !.pc = "sleep"]>>
                   ELSE <<>>
        /\ screen = [s \in Sessions |->
                       IF s # 1 THEN BlankScreen
                       ELSE IF watching
                       THEN [BlankScreen EXCEPT !.kind = "watch", !.dpage = 1, !.title = 1,
                                                !.watching = TRUE]
                       ELSE [BlankScreen EXCEPT !.kind = "idle"]]
        /\ posts = 0
        /\ follows = {}
        /\ ignored_users = {}
        /\ call = NoCall
        /\ delivered = 0
        /\ typed = 0

EditorNext ==
    \/ \E s \in Sessions, char \in TypedChars : TypeChar(s, char)
    \/ \E s \in Sessions : Backspace(s)
    \/ \E s \in Sessions : CtrlU(s)
    \/ \E s \in Sessions : CtrlW(s)
    \/ \E s \in Sessions : ArrowLeft(s)
    \/ \E s \in Sessions : ArrowRight(s)
    \/ \E s \in Sessions : ArrowUp(s)
    \/ \E s \in Sessions : ArrowDown(s)
    \/ \E s \in Sessions : EnterKey(s)
    \/ \E s \in Sessions : PageUp(s)
    \/ \E s \in Sessions : PageDown(s)
    \/ \E s \in Sessions : CtrlPageUp(s)
    \/ \E s \in Sessions : CtrlPageDown(s)
    \/ \E i \in 1..MaxTasks : StartTask(i)
    \/ \E i \in 1..MaxTasks, n \in FetchCounts : FetchReturns(i, n, TRUE)
    \/ \E i \in 1..MaxTasks : FollowingReturns(i, TRUE)
    \/ \E i \in 1..MaxTasks, ok \in BOOLEAN : PostReturns(i, ok)

EditorSpec == EditorInit /\ [][EditorNext]_vars

\* C11: after every chunk the input decoder has processed, the cursor lies
\* within the line: 0 <= cursor_pos <= len(input_buffer)
C11_CursorWithinLine ==
    \A s \in Sessions :
        /\ 0 <= shell[s].cursor_pos
        /\ shell[s].cursor_pos <= Len(shell[s].input_buffer)

\* a line recalled from the history with the cursor moved into it
C11_CursorInsideRecalledLine ==
    \E s \in Sessions :
        /\ shell[s].history # <<>>
        /\ shell[s].history_cursor = 0
        /\ shell[s].input_buffer = shell[s].history[1]
        /\ 0 < shell[s].cursor_pos
        /\ shell[s].cursor_pos < Len(shell[s].input_buffer)

\* C17: no page key changes the line or the cursor, whatever the mode of
\* the session
C17_PageKeysLeaveTheLine ==
    [][\A s \in Sessions :
          (PageUp(s) \/ PageDown(s) \/ CtrlPageUp(s) \/ CtrlPageDown(s)) =>
              /\ shell'[s].input_buffer = shell[s].input_buffer
              /\ shell'[s].cursor_pos = shell[s].cursor_pos]_vars

\* C19: when the create-post call of an eet raises, the command leaves one
\* error line and the prompt after it, the line being typed and the
\* command history as they were, and the session open with its other
\* tasks untouched, so that the next line is dispatched
C19_FailedEetLeavesSessionUsable ==
    [][\A i \in 1..MaxTasks :
          (PostReturns(i, FALSE) /\ shell[tasks[i].sess].chan = "open") =>
              LET s == tasks[i].sess IN
              /\ screen'[s].below = screen[s].below \o <<"error", "prompt">>
              /\ shell'[s].input_buffer = shell[s].input_buffer
              /\ shell'[s].cursor_pos = shell[s].cursor_pos
              /\ shell'[s].history = shell[s].history
              /\ shell'[s].chan = "open"
              /\ tasks' = RemoveAt(tasks, i)]_vars

\* ------------------------------------------------------ the exit command
\* the exit line of task i starts to be handled
ExitRuns(i) ==
    /\ i \in DOMAIN tasks
    /\ tasks[i].kind = "cmd" /\ tasks[i].cmd = "exit"
    /\ StartTask(i)

\* C21: exit in watch mode ends the watch mode and the sidebar, cancels the
\* refresh task, shows the idle view with its prompt and does not close the
\* connection; exit outside watch mode says goodbye and closes it (the
\* terminal and the channel are looked at while the session has them)
C21_ExitLeavesWatchOrCloses ==
    [][\A i \in 1..MaxTasks :
          ExitRuns(i) =>
              LET s == tasks[i].sess IN
              IF shell[s].is_watching_timeline
              THEN /\ ~shell'[s].is_watching_timeline
                   /\ ~shell'[s].sidebar_enabled
                   /\ \A k \in DOMAIN tasks :
                         tasks[k].id = shell[s].timeline_auto_refresh_task =>
                             \E j \in DOMAIN tasks' :
                                 /\ tasks'[j].id = tasks[k].id
                                 /\ tasks'[j].cancelled
                   /\ shell'[s].chan = shell[s].chan
                   /\ shell'[s].close_called = shell[s].close_called
                   /\ shell[s].chan = "open" =>
                         screen'[s] = [BlankScreen EXCEPT !.kind = "idle"]
              ELSE /\ shell'[s].is_watching_timeline = shell[s].is_watching_timeline
                   /\ shell[s].chan = "open" =>
                         /\ shell'[s].close_called
                         /\ screen'[s].below = screen[s].below \o <<"goodbye">>]_vars

\* a session that has left watch mode by exit: idle view, connection open,
\* its refresh task cancelled and not yet ended
C21_LeftWatchMode ==
    \E s \in Sessions :
        /\ shell[s].chan = "open" /\ ~shell[s].close_called
        /\ ~shell[s].is_watching_timeline /\ ~shell[s].sidebar_enabled
        /\ screen[s] = [BlankScreen EXCEPT !.kind = "idle"]
        /\ \E k \in DOMAIN tasks :
              /\ tasks[k].id = shell[s].timeline_auto_refresh_task
              /\ tasks[k].cancelled

\* ------------------------------------------------ typing during a render
\* a session that types a line while its timeline and watch
\* commands and its page keys fetch and render
TypingNext ==
    \/ \E s \in Sessions : TypeChar(s, "e")
    \/ \E s \in Sessions, cmd \in {"timeline", "watch"} :
          SubmitLine(s, cmd, NoPage, 0)
    \/ \E s \in Sessions : PageDown(s)
    \/ \E i \in 1..MaxTasks : StartTask(i)
    \/ \E i \in 1..MaxTasks : FetchReturns(i, DEFAULT_TIMELINE_PAGE_SIZE, TRUE)
    \/ \E i \in 1..MaxTasks : FollowingReturns(i, TRUE)
    \/ \E i \in 1..MaxTasks :
          StaticFetchReturns(i, DEFAULT_TIMELINE_PAGE_SIZE, TRUE)
    \/ \E i \in 1..MaxTasks : FormatReturns(i)
    \/ \E i \in 1..MaxTasks : TimerFires(i)
    \/ \E i \in 1..MaxTasks : CancelDelivered(i)

TypingSpec == EditorInit /\ [][TypingNext]_vars

\* task i writes the watch screen it has fetched
WatchWritten(i) ==
    \/ FollowingReturns(i, TRUE)
    \/ /\ \E n \in FetchCounts : FetchReturns(i, n, TRUE)
       /\ ~\E j \in DOMAIN tasks' :
              tasks'[j].id = tasks[i].id /\ tasks'[j].pc = "rw_side"

\* C22: every render, static or live, that reaches the terminal ends with
\* the prompt followed by the line as it is typed at that moment
C22_RenderRedrawsLine ==
    [][\A i \in 1..MaxTasks :
          ((FormatReturns(i) \/ WatchWritten(i))
               /\ shell[tasks[i].sess].chan = "open") =>
              screen'[tasks[i].sess].redrawn
                  = shell'[tasks[i].sess].input_buffer]_vars

\* ------------------------------------------------------ the page size
\* the tokens tried after `settings pagesize`: none, and the words of one
\* and two characters
PagesizeChars == Digits \cup {"-", "x"}

PagesizeTokens ==
    {<<>>} \cup {<<a>> : a \in PagesizeChars}
           \cup {<<a, b>> : a \in PagesizeChars, b \in PagesizeChars}

\* a session that sets its page size between its timeline commands and
\* page keys, with 0 or 1 posts in its timeline
SettingsNext ==
    \/ \E s \in Sessions, arg \in PagesizeTokens : SubmitPagesize(s, arg)
    \/ \E s \in Sessions : SubmitLine(s, "timeline", NoPage, 0)
    \/ \E s \in Sessions : PageDown(s)
    \/ \E i \in 1..MaxTasks : StartTask(i)
    \/ \E i \in 1..MaxTasks, n \in {0, 1} : StaticFetchReturns(i, n, TRUE)
    \/ \E i \in 1..MaxTasks : FormatReturns(i)

SettingsSpec == EditorInit /\ [][SettingsNext]_vars

\* the line of task i, `settings pagesize ...`, is handled
PagesizeRuns(i) ==
    /\ i \in DOMAIN tasks
    /\ tasks[i].kind = "cmd" /\ tasks[i].cmd = "settings"
    /\ StartTask(i)

\* C23: `settings pagesize n` sets the page size to n exactly when n is a
\* number from 1 to 30; for any other n it leaves the page size as it was
\* and writes an error line; the page size is within 1..30 in every state
C23_PagesizeWithinBounds ==
    /\ [][\A i \in 1..MaxTasks :
            PagesizeRuns(i) =>
                LET s == tasks[i].sess
                    n == tasks[i].arg
                IN IF IsInt(n) /\ IntOf(n) \in 1..30
                   THEN shell'[s].timeline_page_size = IntOf(n)
                   ELSE /\ shell'[s].timeline_page_size
                              = shell[s].timeline_page_size
                        /\ (n # <<>> /\ shell[s].chan = "open") =>
                              /\ Len(screen'[s].below) > Len(screen[s].below)
                              /\ screen'[s].below[Len(screen[s].below) + 1]
                                    \in {"pagesize_range", "not_a_number"}]_vars
    /\ [](\A s \in Sessions : shell[s].timeline_page_size \in 1..30)

\* a session whose page size has been set to the largest value allowed and
\* which has been refused another one since
C23_LargestSizeKept ==
    \E s \in Sessions :
        /\ shell[s].timeline_page_size = MAX_TIMELINE_PAGE_SIZE
        /\ Len(screen[s].below) >= 2
        /\ \E k \in DOMAIN screen[s].below : \E j \in DOMAIN screen[s].below :
              /\ k < j
              /\ screen[s].below[k] = "pagesize_set"
              /\ screen[s].below[j] = "pagesize_range"

\* --------------------------------------------------- the command history
\* the CommandHistory of one session under any sequence of its calls; the
\* commands added are the empty string and two others
HistoryCommands == {<<>>, <<"e">>, <<"e", " ", "e">>}

Add(command) ==
    /\ shell' = [shell EXCEPT ![1] = HistoryAdd(@, command)]
    /\ UNCHANGED <<server, active_sessions, tasks, screen, posts, follows,
            ignored_users, call, delivered,
                   typed>>

Scroll_up ==
    /\ shell' = [shell EXCEPT ![1] = ScrollUp(@).me]
    /\ UNCHANGED <<server, active_sessions, tasks, screen, posts, follows,
            ignored_users, call, delivered,
                   typed>>

Scroll_down ==
    /\ shell' = [shell EXCEPT ![1] = ScrollDown(@).me]
    /\ UNCHANGED <<server, active_sessions, tasks, screen, posts, follows,
            ignored_users, call, delivered,
                   typed>>

HistoryNext ==
    \/ \E command \in HistoryCommands : Add(command)
    \/ Scroll_up
    \/ Scroll_down

HistorySpec == Init /\ [][HistoryNext]_vars

\* C24: the history holds at most 10 entries and no two neighbours are
\* equal; an add puts a command that differs from the newest entry in front
\* of the others (the newest first), dropping the oldest of 10, stores an
\* equal one not at all, and resets the cursor to -1 in both cases;
\* scrolling leaves the entries alone
C24_HistoryIsBoundedRing ==
    /\ [](/\ Len(shell[1].history) <= 10
          /\ \A k \in 1..(Len(shell[1].history) - 1) :
                shell[1].history[k] # shell[1].history[k + 1])
    /\ [][\A command \in HistoryCommands :
            Add(command) =>
                LET h == shell[1].history
                    newest == IF h = <<>> THEN <<>> ELSE h[1]
                IN /\ shell'[1].history_cursor = -1
                   /\ shell'[1].history =
                         IF command = newest THEN h
                         ELSE IF Len(h) = 10
                         THEN <<command>> \o SubSeq(h, 1, 9)
                         ELSE <<command>> \o h]_vars
    /\ [][(Scroll_up \/ Scroll_down) =>
             shell'[1].history = shell[1].history]_vars

\* a full history that has been scrolled up to its oldest entry
C24_FullHistoryScrolledUp ==
    /\ Len(shell[1].history) = MAX_HISTORY_SIZE
    /\ shell[1].history_cursor = MAX_HISTORY_SIZE - 1

\* ------------------------------------------------- what a session owns
\* alice is idle and bob watches his own posts on a small terminal with
\* five users on line, the sidebar scrolled to its end; both type, change
\* their settings and filters, scroll, post and disconnect
FrameInit ==
    /\ shell = [s \in Sessions |->
                  IF s = 1
                  THEN [NewShell EXCEPT !.chan = "open", !.username = UserOf(s)]
                  ELSE [WatchingShell(s) EXCEPT
                           !.current_target_filter = "mine",
                           !.sidebar_scroll_offset = 2,
                           !.term_height = SmallTermHeight,
                           !.sidebar_full_user_list = Cardinality(AllNames)]]
    /\ server = [s \in Sessions |-> LoggedIn(UserOf(s))]
    /\ active_sessions = [u \in AllNames |->
                             IF \E s \in Sessions : UserOf(s) = u
                             THEN CHOOSE s \in Sessions : UserOf(s) = u
                             ELSE Elsewhere]
    /\ tasks = [k \in 1..(NumSessions - 1) |->
                   [NewTask(k + 1, "loop", k + 1, "-", 0) EXCEPT !.pc = "sleep"]]
    /\ screen = [s \in Sessions |->
                   IF s = 1 THEN [BlankScreen EXCEPT !.kind = "idle"]
                   ELSE [BlankScreen EXCEPT !.kind = "watch", !.dpage = 1, !.title = 1,
                                            !.watching = TRUE]]
    /\ posts = 0
    /\ follows = {}
    /\ ignored_users = {}
    /\ call = NoCall
    /\ delivered = 0
    /\ typed = MaxInputs - 2     \* two more lines or keys are received

\* a key or a line of session s
InputOf(s) ==
    \/ typed < MaxInputs /\ TypeChar(s, "e")
    \/ SubmitPagesize(s, <<"3">>)
    \/ SubmitTarget(s, "timeline", "mine")
    \/ SubmitLine(s, "eet", NoPage, EET_MAX_LENGTH)
    \/ CtrlPageUp(s)

\* a step of task i
TaskStep(i) ==
    \/ StartTask(i)
    \/ FetchReturns(i, DEFAULT_TIMELINE_PAGE_SIZE, TRUE)
    \/ FollowingReturns(i, TRUE)
    \/ StaticFetchReturns(i, DEFAULT_TIMELINE_PAGE_SIZE, TRUE)
    \/ FormatReturns(i)
    \/ PostReturns(i, TRUE)
    \/ TimerFires(i)
    \/ CancelDelivered(i)

FrameNext ==
    \/ \E s \in Sessions : InputOf(s)
    \/ \E s \in Sessions : ShellConnectionLost(s)
    \/ \E i \in 1..MaxTasks : TaskStep(i)
    \/ HandleGlobalNewPostEvent

FrameSpec == FrameInit /\ [][FrameNext]_vars

\* a keystroke, a command, a timer tick, a render or the disconnect of
\* session a
StepOf(a) ==
    \/ InputOf(a)
    \/ ShellConnectionLost(a)
    \/ \E i \in DOMAIN tasks : tasks[i].sess = a /\ TaskStep(i)

\* the state that session b owns
Owned(b) ==
    [ input_buffer |-> shell[b].input_buffer,
      cursor_pos |-> shell[b].cursor_pos,
      current_target_filter |-> shell[b].current_target_filter,
      timeline_page_size |-> shell[b].timeline_page_size,
      sidebar_scroll_offset |-> shell[b].sidebar_scroll_offset ]

\* the tasks of session b
TasksOf(tk, b) == {tk[k] : k \in {j \in DOMAIN tk : tk[j].sess = b}}

\* C25: a step of session a leaves the line, the cursor, the filter, the
\* page size and the sidebar offset of every other session b as they are,
\* and the rest of b's fields, its screen and its tasks as well; the
\* dispatch of a push notification leaves the fields and the screens alone
\* and gives b nothing but tasks that render page 1
C25_SessionsOwnTheirState ==
    /\ [][\A a \in Sessions : \A b \in Sessions \ {a} :
            StepOf(a) =>
                /\ Owned(b)' = Owned(b)
                /\ shell'[b] = shell[b]
                /\ screen'[b] = screen[b]
                /\ TasksOf(tasks', b) = TasksOf(tasks, b)]_vars
    /\ [][HandleGlobalNewPostEvent =>
            /\ shell' = shell /\ screen' = screen
            /\ \A b \in Sessions :
                  \A t \in TasksOf(tasks', b) \ TasksOf(tasks, b) :
                      t.kind = "notif" /\ t.page = 1]_vars

\* two sessions that differ in every field they own
C25_SessionsDiffer ==
    \E a \in Sessions : \E b \in Sessions \ {a} :
        /\ shell[a].timeline_page_size = 3
        /\ shell[b].timeline_page_size = DEFAULT_TIMELINE_PAGE_SIZE
        /\ shell[a].current_target_filter = "all"
        /\ shell[b].current_target_filter = "mine"
        /\ shell[b].sidebar_scroll_offset > 0
        /\ shell[a].input_buffer # shell[b].input_buffer

\* ---------------------------------------------------------- registration
\* user names are sequences of characters here; the accounts of the store
Name(str) ==
    CASE str = "bob" -> <<"b", "o", "b">>
      [] str = "Bob" -> <<"B", "o", "b">>
      [] str = "b_b" -> <<"b", "_", "b">>
      [] str = "b b" -> <<"b", " ", "b">>
      [] str = "Ali" -> <<"A", "l", "i">>
      [] str = "ali" -> <<"a", "l", "i">>
      [] str = "al" -> <<"a", "l">>
      [] str = "carl" -> <<"c", "a", "r", "l">>

Accounts == {Name("bob"), Name("Ali")}

\* the names tried after `register:`, one of 20 and one of 21 characters
\* among them
RegistrationNames ==
    {Name("bob"), Name("Bob"), Name("b_b"), Name("b b"), Name("ali"),
     Name("al"), Name("carl"), [k \in 1..20 |-> "a"], [k \in 1..21 |-> "a"]}

\* str.lower(), one character
LowerChar(char) ==
    CASE char = "A" -> "a"
      [] char = "B" -> "b"
      [] OTHER -> char

Lower(name) == [k \in DOMAIN name |-> LowerChar(name[k])]

\* re.match(r"^[a-zA-Z0-9_]{3,20}$", potential_username)
WellFormed(name) ==
    /\ Len(name) >= 3 /\ Len(name) <= 20
    /\ \A k \in DOMAIN name :
          name[k] \in {"a", "b", "c", "i", "l", "o", "r", "A", "B", "_"}

\* ilike: the pattern matches the whole value, letters without their case,
\* and _ in the pattern matches any one character
ILike(value, pattern) ==
    /\ Len(value) = Len(pattern)
    /\ \A k \in DOMAIN value :
          pattern[k] = "_" \/ LowerChar(pattern[k]) = LowerChar(value[k])

\* db_username_exists_case_insensitive: a row that matches or None; None
\* as well when the query raises
UsernameExists(username, ok) ==
    ok /\ \E account \in Accounts : ILike(account, Lower(username))

\* begin_auth("register:" + name); ok: the query of the store does not raise
BeginAuthRegister(s, name, ok) ==
    /\ shell[s].chan = "free"
    /\ typed < MaxInputs
    /\ typed' = typed + 1
    /\ server' = [server EXCEPT ![s] =
          IF ~WellFormed(name) \/ UsernameExists(name, ok)
          THEN [@ EXCEPT !.is_registration_attempt = FALSE,
                         !.current_username = NoUser,
                         !.registration_username_candidate = <<>>]
          ELSE [@ EXCEPT !.is_registration_attempt = TRUE,
                         !.current_username = NoUser,
                         !.registration_username_candidate = name]]
    /\ UNCHANGED <<shell, active_sessions, tasks, screen, posts, follows,
            ignored_users, call, delivered>>

\* validate_public_key in a registration attempt: the key is captured
ValidatePublicKey(s) ==
    /\ shell[s].chan = "free"
    /\ server[s].is_registration_attempt
    /\ ~server[s].submitted_public_key
    /\ server' = [server EXCEPT ![s].submitted_public_key = TRUE]
    /\ UNCHANGED <<shell, active_sessions, tasks, screen, posts, follows,
            ignored_users, call, delivered,
                   typed>>

\* session_requested on a connection that has not logged in: a shell for
\* the registration, or None
SessionRequested(s) ==
    /\ shell[s].chan = "free"
    /\ server[s].current_username = NoUser
    /\ shell' = [shell EXCEPT ![s] =
          IF /\ server[s].is_registration_attempt
             /\ server[s].registration_username_candidate # <<>>
             /\ server[s].submitted_public_key
          THEN [@ EXCEPT !.chan = "requested",
                         !.reg_username_candidate =
                             server[s].registration_username_candidate]
          ELSE @]
    /\ UNCHANGED <<server, active_sessions, tasks, screen, posts, follows,
            ignored_users, call, delivered,
                   typed>>

RegistrationNext ==
    \/ \E s \in Sessions, name \in RegistrationNames, ok \in BOOLEAN :
          BeginAuthRegister(s, name, ok)
    \/ \E s \in Sessions : ValidatePublicKey(s)
    \/ \E s \in Sessions : SessionRequested(s)

RegistrationSpec == Init /\ [][RegistrationNext]_vars

\* name is the username of an account, ignoring case
Taken(name) == \E account \in Accounts : Lower(account) = Lower(name)

\* C26: a begin_auth for `register:<name>` with a name that is taken,
\* ignoring case, or that is not 3 to 20 letters, digits or underscores
\* leaves no registration attempt and creates no session, and no session
\* exists for the registration of such a name
C26_TakenNameIsRefused ==
    /\ [][\A s \in Sessions, name \in RegistrationNames, ok \in BOOLEAN :
            (BeginAuthRegister(s, name, ok)
                 /\ (Taken(name) \/ ~WellFormed(name))) =>
                /\ ~server'[s].is_registration_attempt
                /\ shell'[s] = shell[s]]_vars
    /\ [](\A s \in Sessions :
             shell[s].reg_username_candidate # <<>> =>
                 /\ ~Taken(shell[s].reg_username_candidate)
                 /\ WellFormed(shell[s].reg_username_candidate))

\* ------------------------------------------------- follows and ignores
\* the users named after the @: the two of the sessions and one that has no
\* account
NoAccount == "zed"

RelationTargets == Usernames \cup {NoAccount}

\* a session that follows, unfollows, ignores and unignores, with a store
\* that answers every query
RelationNext ==
    \/ \E s \in Sessions, cmd \in RelationCommands, target \in RelationTargets :
          SubmitRelation(s, cmd, target)
    \/ \E i \in 1..MaxTasks : StartTask(i)
    \/ \E i \in 1..MaxTasks : RelationCheckReturns(i, TRUE)
    \/ \E i \in 1..MaxTasks : RelationWriteReturns(i)

RelationSpec == EditorInit /\ [][RelationNext]_vars

\* the command of task i has failed with the line text and has ended
\* without a write to the store
Raised(i, text) ==
    LET s == tasks[i].sess IN
    /\ tasks' = RemoveAt(tasks, i)
    /\ follows' = follows /\ ignored_users' = ignored_users
    /\ Len(screen'[s].below) > Len(screen[s].below)
    /\ screen'[s].below[Len(screen[s].below) + 1] \in text

\* the ValueErrors of the four store functions
ValueErrors ==
    {"user_not_found", "yourself", "already_following", "not_following",
     "already_ignoring", "not_ignoring"}

WidthChars == {"a", "W", "z", "c"}

MaxText == 4          \* characters of a string that is truncated
MaxWidth == 5         \* largest max_visual_width asked for

\* wcwidth.wcwidth, imported as get_char_width
get_char_width(char) ==
    CASE char = "W" -> 2
      [] char = "z" -> 0
      [] char \in {"c", "e"} -> 0 - 1
      [] OTHER -> 1

RECURSIVE SumWidths(_)
SumWidths(text) ==
    IF text = <<>> THEN 0
    ELSE get_char_width(Head(text)) + SumWidths(Tail(text))

\* wcwidth.wcswidth: -1 when a character of the string has width -1
wcswidth(text) ==
    IF \E i \in DOMAIN text : get_char_width(text[i]) < 0 THEN 0 - 1
    ELSE SumWidths(text)

placeholder == <<".", ".", ".">>

\* the loops of truncate_str_with_wcwidth: the number of leading characters
\* taken before the first one that would pass the limit, from character i
\* on with current_width columns taken so far
RECURSIVE EndIdx(_, _, _, _)
EndIdx(text, i, current_width, limit) ==
    IF i > Len(text) THEN Len(text)
    ELSE LET w == get_char_width(text[i])
             char_width == IF w = 0 - 1 THEN 1 ELSE w
         IN IF current_width + char_width > limit THEN i - 1
            ELSE EndIdx(text, i + 1, current_width + char_width, limit)

truncate_str_with_wcwidth(text, max_visual_width) ==
    IF text = <<>> THEN <<>>
    ELSE IF wcswidth(text) <= max_visual_width THEN text
    ELSE IF max_visual_width < wcswidth(placeholder)
    THEN SubSeq(text, 1, EndIdx(text, 1, 0, max_visual_width))
    ELSE SubSeq(text, 1,
                EndIdx(text, 1, 0, max_visual_width - wcswidth(placeholder)))
         \o placeholder

\* the columns of a string, a character of width -1 counted as 1
RECURSIVE VisualWidth(_)
VisualWidth(text) ==
    IF text = <<>> THEN 0
    ELSE (IF get_char_width(Head(text)) < 0 THEN 1
          ELSE get_char_width(Head(text)))
         + VisualWidth(Tail(text))

Texts == UNION {[1..n -> WidthChars] : n \in 0..MaxText}

TruncateInit ==
    /\ Started
    /\ call \in {[fn |-> "truncate_str_with_wcwidth", text |-> text,
                  max_visual_width |-> w, returned |-> FALSE, result |-> <<>>] :
                     text \in Texts, w \in 0..MaxWidth}

TruncateReturns ==
    /\ call.fn = "truncate_str_with_wcwidth"
    /\ ~call.returned
    /\ call' = [call EXCEPT
                  !.returned = TRUE,
                  !.result = truncate_str_with_wcwidth(call.text,
                                                       call.max_visual_width)]
    /\ UNCHANGED <<shell, server, active_sessions, tasks, screen, posts,
                   follows, ignored_users, delivered, typed>>

TruncateSpec == TruncateInit /\ [][TruncateReturns]_vars

\* C28: the result of truncate_str_with_wcwidth(s, w) has visual width at
\* most w, for every string s of single-width, wide, zero-width and
\* non-printable characters and every w >= 0, a character of negative width
\* counted as 1
C28_ResultFitsWidth ==
    (call.fn = "truncate_str_with_wcwidth" /\ call.returned) =>
        VisualWidth(call.result) <= call.max_visual_width

\* ------------------------------------------------- the watch screen
SIDEBAR_WIDTH == 25
time_w == 10
user_w_max == 18
sep_chars_count == 4
MinTimelineWidth == 20
MinContentWidth == 10

Repeat(char, n) == [i \in 1..n |-> char]

\* ANSI_ESCAPE_RE.sub('', text)
strip_ansi(text) == SelectSeq(text, LAMBDA char : char # "e")

\* f"{text}{' ' * max(0, width - wcswidth(strip_ansi(text)))}"
Pad(text, width) ==
    text \o Repeat(" ", Max(0, width - wcswidth(strip_ansi(text))))

\* f"{text:<{width}}"
LJust(text, width) == text \o Repeat(" ", Max(0, width - Len(text)))

\* f"@{username}"; the letters of the name are single-width characters
NameLength(username) ==
    CASE username = "alice" -> 5
      [] username = "bob" -> 3
      [] username = "carol" -> 5
      [] username = "dave" -> 4
      [] username = "erin" -> 4
      [] username = "Bob" -> 3
      [] username = "Dave" -> 4

At(username) == <<"@">> \o Repeat("a", NameLength(username))

\* textwrap.TextWrapper(width, subsequent_indent="  ",
\* break_long_words=True).wrap(text) for a text without whitespace and
\* hyphens: pieces of width characters, the later ones indented
RECURSIVE WrapRest(_, _)
WrapRest(text, width) ==
    IF text = <<>> THEN <<>>
    ELSE LET n == Min(Len(text), width - 2)
         IN << <<" ", " ">> \o SubSeq(text, 1, n) >>
            \o WrapRest(SubSeq(text, n + 1, Len(text)), width)

Wrap(text, width) ==
    IF text = <<>> THEN <<>>
    ELSE LET n == Min(Len(text), width)
         IN << SubSeq(text, 1, n) >>
            \o WrapRest(SubSeq(text, n + 1, Len(text)), width)

\* \w of the patterns
WordChar(char) == char \in {"a", "W"}

RECURSIVE WordEnd(_, _)
WordEnd(line, i) ==
    IF i < Len(line) /\ WordChar(line[i + 1]) THEN WordEnd(line, i + 1) ELSE i

\* format_eet_content for a content without @: every hashtag between a
\* colour and RESET
RECURSIVE ColourFrom(_, _)
ColourFrom(line, i) ==
    IF i > Len(line) THEN <<>>
    ELSE IF /\ line[i] = "#"
            /\ (i = 1 \/ ~WordChar(line[i - 1]))
            /\ i < Len(line)
            /\ WordChar(line[i + 1])
    THEN <<"e">> \o SubSeq(line, i, WordEnd(line, i + 1)) \o <<"e">>
         \o ColourFrom(line, WordEnd(line, i + 1) + 1)
    ELSE <<line[i]>> \o ColourFrom(line, i + 1)

format_eet_content(line) == ColourFrom(line, 1)

\* _get_timeline_body_lines_for_watch: the lines of one eet
EetLines(eet, username, timeline_content_width) ==
    LET eet_content_text_width ==
            Max(MinContentWidth,
                timeline_content_width - time_w - user_w_max - sep_chars_count)
        user_display_raw ==
            IF eet.display_name # <<>>
            THEN eet.display_name \o <<" ", "(">> \o At(eet.username) \o <<")">>
            ELSE At(eet.username)
        user_display_truncated_plain ==
            truncate_str_with_wcwidth(user_display_raw, user_w_max)
        user_col_str_colored ==
            IF eet.username = username
            THEN <<"e">> \o user_display_truncated_plain \o <<"e">>
            ELSE user_display_truncated_plain
        user_col_final_padded ==
            user_col_str_colored
            \o Repeat(" ", Max(0, user_w_max
                                  - wcswidth(user_display_truncated_plain)))
        wrapped == Wrap(strip_ansi(eet.content), eet_content_text_width)
        content_lines_wrapped_raw ==
            IF wrapped = <<>> THEN << <<>> >> ELSE wrapped
        line_prefix_str(i) ==
            IF i = 1
            THEN LJust(eet.time_str, time_w) \o <<" ", " ">>
                 \o user_col_final_padded \o <<" ", " ">>
            ELSE Repeat(" ", time_w + 2 + user_w_max + 2)
    IN [i \in 1..Len(content_lines_wrapped_raw) |->
           Pad(line_prefix_str(i)
               \o format_eet_content(content_lines_wrapped_raw[i]),
               timeline_content_width)]

\* the loop over the eets, from eets[eet_idx] on
RECURSIVE TimelineLoop(_, _, _, _, _, _)
TimelineLoop(eets, eet_idx, output_lines, username, timeline_content_width, num_lines_available) ==
    IF eet_idx > Len(eets) \/ Len(output_lines) >= num_lines_available
    THEN output_lines
    ELSE LET lines == EetLines(eets[eet_idx], username, timeline_content_width)
             taken == output_lines
                      \o SubSeq(lines, 1,
                                Min(Len(lines),
                                    num_lines_available - Len(output_lines)))
             blank == IF /\ eet_idx < Len(eets)
                         /\ Len(taken) < num_lines_available
                      THEN << Repeat(" ", timeline_content_width) >>
                      ELSE <<>>
         IN TimelineLoop(eets, eet_idx + 1, taken \o blank, username,
                         timeline_content_width, num_lines_available)

get_timeline_body_lines_for_watch(username, eets, timeline_content_width, num_lines_available) ==
    IF username = NoUser \/ eets = <<>>
    THEN [i \in 1..num_lines_available |-> Repeat(" ", timeline_content_width)]
    ELSE LET output_lines ==
                 TimelineLoop(eets, 1, <<>>, username, timeline_content_width,
                              num_lines_available)
         IN SubSeq(output_lines
                   \o [i \in 1..(num_lines_available - Len(output_lines)) |->
                          Repeat(" ", timeline_content_width)],
                   1, num_lines_available)

\* _update_sidebar_full_user_list: the entry of one user
SidebarEntry(user, username, followed) ==
    truncate_str_with_wcwidth(
        IF user = username THEN <<" ", " ", "e">> \o At(user) \o <<"e">>
        ELSE IF followed THEN <<"e", "*", "e", " ">> \o At(user)
        ELSE <<" ", " ">> \o At(user),
        SIDEBAR_WIDTH - 1)

get_sidebar_visible_content_lines(sidebar_enabled, sidebar_full_user_list, sidebar_scroll_offset, num_lines_available) ==
    IF ~sidebar_enabled \/ sidebar_full_user_list = <<>>
    THEN [i \in 1..num_lines_available |-> Repeat(" ", SIDEBAR_WIDTH)]
    ELSE LET visible ==
                 SubSeq(sidebar_full_user_list, sidebar_scroll_offset + 1,
                        Min(Len(sidebar_full_user_list),
                            sidebar_scroll_offset + num_lines_available))
             output_lines ==
                 [i \in 1..Len(visible) |-> Pad(visible[i], SIDEBAR_WIDTH)]
         IN SubSeq(output_lines
                   \o [i \in 1..(num_lines_available - Len(output_lines)) |->
                          Repeat(" ", SIDEBAR_WIDTH)],
                   1, num_lines_available)

\* f" {FG_BRIGHT_BLACK}|{RESET} "
separator_str == <<" ", "e", "|", "e", " ">>

\* tl_title_text_content: "Your 'Mine' Feed" or "All Eets"
TitleText(filter) == Repeat("a", IF filter = "mine" THEN 16 ELSE 8)

\* _build_watch_screen_output for the shell fields and the eets of c: the
\* rows of output_buffer, which the function joins with "\r\n"; the page is
\* page 1 of 10 eets
build_watch_screen_output(c) ==
    LET sidebar_w == IF c.sidebar_enabled THEN SIDEBAR_WIDTH ELSE 0
        separator == IF c.sidebar_enabled THEN separator_str ELSE <<>>
        separator_visual_w ==
            IF c.sidebar_enabled THEN wcswidth(strip_ansi(separator_str))
            ELSE 0
        timeline_w ==
            Max(MinTimelineWidth, c.term_width - sidebar_w - separator_visual_w)
        scrollable_body_height == ScrollableBodyHeight(c.term_height)
        tl_title_raw ==
            <<"e">>
            \o truncate_str_with_wcwidth(
                   <<"-", "-", "-", " ">> \o TitleText(c.filter)
                   \o Repeat("a", 22) \o <<" ", "-", "-", "-">>,
                   timeline_w)
            \o <<"e">>
        eet_cw == Max(MinContentWidth,
                      timeline_w - time_w - user_w_max - sep_chars_count)
        tl_cols_raw ==
            truncate_str_with_wcwidth(
                LJust(Repeat("a", 4), time_w) \o <<" ", " ">>
                \o LJust(Repeat("a", 4), user_w_max) \o <<" ", " ">>
                \o LJust(Repeat("a", 3), eet_cw),
                timeline_w)
        tl_sep_raw == <<"e">> \o Repeat("-", timeline_w) \o <<"e">>
        sb_title_padded ==
            IF c.sidebar_enabled
            THEN Pad(truncate_str_with_wcwidth(
                         <<"e">> \o Repeat("a", 19) \o <<"e">>, sidebar_w),
                     sidebar_w)
            ELSE <<>>
        sb_sep_padded ==
            IF c.sidebar_enabled
            THEN Pad(<<"e">> \o Repeat("-", sidebar_w) \o <<"e">>, sidebar_w)
            ELSE <<>>
        timeline_body_content ==
            get_timeline_body_lines_for_watch(c.username, c.eets, timeline_w,
                                              scrollable_body_height)
        sidebar_body_content ==
            get_sidebar_visible_content_lines(
                c.sidebar_enabled, c.sidebar_full_user_list,
                c.sidebar_scroll_offset, scrollable_body_height)
        status_footer_padded ==
            truncate_str_with_wcwidth(
                Repeat("a", 14) \o TitleText(c.filter) \o <<".", ".", ".", " ">>
                \o <<"e">> \o Repeat("a", 37) \o <<"e">>,
                c.term_width)
    IN IF c.username = NoUser THEN <<>>
       ELSE << Pad(tl_title_raw, timeline_w),
               Pad(tl_cols_raw, timeline_w) \o separator \o sb_title_padded,
               Pad(tl_sep_raw, timeline_w) \o separator \o sb_sep_padded >>
            \o [i \in 1..scrollable_body_height |->
                   timeline_body_content[i] \o separator
                   \o (IF c.sidebar_enabled THEN sidebar_body_content[i]
                       ELSE <<>>)]
            \o << status_footer_padded >>

MaxTermHeight == 8    \* rows of the largest terminal
MaxEets == 2          \* eets of the page that is rendered
MaxOnline == 3        \* users in the sidebar list

TermWidths == {60, 80}

\* eets of the page: by the viewer and by another user, with and without a
\* display name, with no content, a hashtag, a long word, wide characters
Eets ==
    {[username |-> "alice", display_name |-> <<>>, content |-> <<>>,
      time_str |-> Repeat("a", 8)],
     [username |-> "bob", display_name |-> <<>>,
      content |-> <<"#", "a", "a">>, time_str |-> Repeat("a", 6)],
     [username |-> "bob", display_name |-> Repeat("a", 15),
      content |-> Repeat("a", 25), time_str |-> Repeat("a", 6)],
     [username |-> "alice", display_name |-> <<>>,
      content |-> Repeat("W", 12), time_str |-> Repeat("a", 8)]}

\* the sidebar list of alice, who follows bob: herself, bob, then users
\* she does not follow
OnlineList ==
    [k \in 1..MaxOnline |->
        IF k = 1 THEN SidebarEntry("alice", "alice", FALSE)
        ELSE IF k = 2 THEN SidebarEntry("bob", "alice", TRUE)
        ELSE SidebarEntry("carol", "alice", FALSE)]

WatchScreenInit ==
    /\ Started
    /\ call \in {[fn |-> "_build_watch_screen_output",
                  username |-> "alice",
                  filter |-> "all",
                  term_width |-> w,
                  term_height |-> h,
                  eets |-> eets,
                  sidebar_enabled |-> enabled,
                  sidebar_full_user_list |-> SubSeq(OnlineList, 1, online),
                  sidebar_scroll_offset |-> offset,
                  returned |-> FALSE,
                  result |-> <<>>] :
                     w \in TermWidths, h \in 1..MaxTermHeight,
                     eets \in UNION {[1..n -> Eets] : n \in 0..MaxEets},
                     enabled \in BOOLEAN, online \in 0..MaxOnline,
                     offset \in 0..1}

BuildWatchScreenOutputReturns ==
    /\ call.fn = "_build_watch_screen_output"
    /\ ~call.returned
    /\ call' = [call EXCEPT !.returned = TRUE,
                            !.result = build_watch_screen_output(call)]
    /\ UNCHANGED <<shell, server, active_sessions, tasks, screen, posts,
                   follows, ignored_users, delivered, typed>>

WatchScreenSpec == WatchScreenInit /\ [][BuildWatchScreenOutputReturns]_vars

Built == call.fn = "_build_watch_screen_output" /\ call.returned

\* the row is the separator row of the header
SeparatorRow(row) ==
    /\ Len(row) > MinTimelineWidth
    /\ row[1] = "e"
    /\ \A i \in 2..(MinTimelineWidth + 1) : row[i] = "-"

\* C29: the watch render is 3 header rows, the third of them the separator
\* row, then max(1, terminal height - 5) body rows, then 1 footer row, for
\* every terminal height, whatever the eets and the users online
C29_RowsOfWatchScreen ==
    Built =>
        LET n == Max(1, call.term_height - 5) IN
        /\ Len(call.result) = 3 + n + 1
        /\ SeparatorRow(call.result[3])
        /\ \A i \in 1..(3 + n + 1) : i # 3 => ~SeparatorRow(call.result[i])

\* more eets and more users than the 3 body rows hold
C29_MoreThanFits ==
    /\ Built
    /\ call.term_height = 8
    /\ Len(call.eets) = 2
    /\ Len(call.sidebar_full_user_list) - call.sidebar_scroll_offset = 3
    /\ call.sidebar_enabled
    /\ Len(call.result) = 7

\* C30: with the sidebar on, every body row is a timeline part of
\* max(20, terminal width - 25 - 3) columns, then the divider, then a
\* sidebar part of 25 columns
C30_DividerInOneColumn ==
    (Built /\ call.sidebar_enabled) =>
        LET n == Max(1, call.term_height - 5)
            timeline_w == Max(20, call.term_width - 25 - 3)
        IN \A i \in 4..(3 + n) :
              LET row == call.result[i] IN
              \E k \in 0..Len(row) :
                  /\ VisualWidth(strip_ansi(SubSeq(row, 1, k))) = timeline_w
                  /\ k + 5 <= Len(row)
                  /\ SubSeq(row, k + 1, k + 5) = separator_str
                  /\ VisualWidth(strip_ansi(SubSeq(row, k + 6, Len(row)))) = 25

\* ------------------------------------------------- the sidebar list
\* the keys of the registry, two of them with a capital
OnlineNames == {"alice", "Bob", "carol", "Dave", "erin"}

\* str.lower() of a key
LowerName(user) ==
    CASE user = "Bob" -> "bob"
      [] user = "Dave" -> "dave"
      [] OTHER -> user

\* the place of a string in the order of Python's str comparison: capitals
\* come before small letters
StrRank(str) ==
    CASE str = "Bob" -> 1
      [] str = "Dave" -> 2
      [] str = "alice" -> 3
      [] str = "bob" -> 4
      [] str = "carol" -> 5
      [] str = "dave" -> 6
      [] str = "erin" -> 7

\* a sort key that compares the names as they are written
sort_key_as_written(u_name, username, followed_usernames_set) ==
    << IF LowerName(u_name) = LowerName(username) THEN 0 ELSE 1,
       IF LowerName(u_name) \in followed_usernames_set THEN 0 ELSE 1,
       StrRank(u_name) >>

\* sort_key: (not is_self, not is_followed, u_name.lower()); False is 0
sort_key(u_name, username, followed_usernames_set) ==
    << IF LowerName(u_name) = LowerName(username) THEN 0 ELSE 1,
       IF LowerName(u_name) \in followed_usernames_set THEN 0 ELSE 1,
       StrRank(LowerName(u_name)) >>

\* the order of Python's tuples
TupleLess(a, b) ==
    \/ a[1] < b[1]
    \/ a[1] = b[1] /\ a[2] < b[2]
    \/ a[1] = b[1] /\ a[2] = b[2] /\ a[3] < b[3]

\* sorted(online_usernames, key=sort_key); no two keys are equal, so the
\* order in which sorted(keys, key=lower) left them does not show
RECURSIVE Sorted(_, _, _)
Sorted(names, username, followed_usernames_set) ==
    IF names = {} THEN <<>>
    ELSE LET first ==
                 CHOOSE u \in names : \A v \in names \ {u} :
                     TupleLess(sort_key(u, username, followed_usernames_set),
                               sort_key(v, username, followed_usernames_set))
         IN <<first>> \o Sorted(names \ {first}, username, followed_usernames_set)

\* _update_sidebar_full_user_list, the store having answered: the users in
\* the order of the list
update_sidebar_full_user_list(username, online, followed_usernames_set) ==
    IF username = NoUser \/ online = {} THEN <<>>
    ELSE Sorted(online, username, followed_usernames_set)

\* the entries of the list
FormattedList(users, username, followed_usernames_set) ==
    [k \in DOMAIN users |->
        SidebarEntry(users[k], username,
                     LowerName(users[k]) \in followed_usernames_set)]

MaxBodyRows == 3       \* body rows of the sidebar

SidebarListInit ==
    /\ Started
    /\ call \in {[fn |-> "_update_sidebar_full_user_list",
                  username |-> "carol",
                  online |-> online,
                  followed_usernames_set |-> followed,
                  sidebar_scroll_offset |-> offset,
                  num_lines_available |-> n,
                  returned |-> FALSE,
                  result |-> <<>>,
                  visible |-> <<>>] :
                     online \in SUBSET OnlineNames,
                     followed \in SUBSET {"bob", "erin", "zed"},
                     offset \in 0..MaxBodyRows, n \in 1..MaxBodyRows}

\* the list is built and its visible rows are taken
SidebarListReturns ==
    /\ call.fn = "_update_sidebar_full_user_list"
    /\ ~call.returned
    /\ LET users == update_sidebar_full_user_list(
                        call.username, call.online, call.followed_usernames_set)
       IN call' = [call EXCEPT
                     !.returned = TRUE,
                     !.result = users,
                     !.visible =
                        get_sidebar_visible_content_lines(
                            TRUE,
                            FormattedList(users, call.username,
                                          call.followed_usernames_set),
                            call.sidebar_scroll_offset,
                            call.num_lines_available)]
    /\ UNCHANGED <<shell, server, active_sessions, tasks, screen, posts,
                   follows, ignored_users, delivered, typed>>

SidebarListSpec == SidebarListInit /\ [][SidebarListReturns]_vars

\* 0 for the viewer, 1 for a user the viewer follows, 2 for the others
GroupOf(user) ==
    IF LowerName(user) = LowerName(call.username) THEN 0
    ELSE IF LowerName(user) \in call.followed_usernames_set THEN 1
    ELSE 2

\* C31: the sidebar list holds every key of the registry exactly once, the
\* viewer first, then the users the viewer follows, then the others, each
\* group in alphabetical order without regard to case; the visible rows are
\* the entries list[offset : offset + body_rows], blank rows after them
C31_SidebarListOrder ==
    (call.fn = "_update_sidebar_full_user_list" /\ call.returned) =>
        LET list == call.result
            entries == FormattedList(list, call.username,
                                     call.followed_usernames_set)
        IN /\ Len(list) = Cardinality(call.online)
           /\ \A u \in call.online :
                 Cardinality({k \in DOMAIN list : list[k] = u}) = 1
           /\ \A j \in DOMAIN list : \A k \in DOMAIN list :
                 j < k =>
                    \/ GroupOf(list[j]) < GroupOf(list[k])
                    \/ /\ GroupOf(list[j]) = GroupOf(list[k])
                       /\ StrRank(LowerName(list[j])) < StrRank(LowerName(list[k]))
           /\ Len(call.visible) = call.num_lines_available
           /\ \A i \in 1..call.num_lines_available :
                 call.visible[i] =
                    IF call.sidebar_scroll_offset + i <= Len(list)
                    THEN Pad(entries[call.sidebar_scroll_offset + i],
                             SIDEBAR_WIDTH)
                    ELSE Repeat(" ", SIDEBAR_WIDTH)

\* five users online, two of them followed, the list scrolled by one row
C31_FollowedBeforeOthers ==
    /\ call.fn = "_update_sidebar_full_user_list"
    /\ call.returned
    /\ call.result = <<"carol", "Bob", "erin", "alice", "Dave">>
    /\ call.sidebar_scroll_offset = 1
    /\ call.num_lines_available = MaxBodyRows

\* ------------------------------------------------- the configuration
\* the fields of Config without a default, and one of the int fields that
\* have one
RequiredVars ==
    {"ITTER_DEBUG_MODE", "SUPABASE_URL", "SUPABASE_KEY", "SUPABASE_WSURL",
     "IP_HASH_SALT"}

ConfigVars == RequiredVars \cup {"EET_MAX_LENGTH"}

\* a variable is unset, holds a value of the type of its field, or (bool
\* and int fields only: every string is a str) holds another value
ValuesOf(var) ==
    IF var \in {"ITTER_DEBUG_MODE", "EET_MAX_LENGTH"}
    THEN {"unset", "valid", "invalid"}
    ELSE {"unset", "valid"}

Environments == {env \in [ConfigVars -> {"unset", "valid", "invalid"}] :
                    \A var \in ConfigVars : env[var] \in ValuesOf(var)}

\* Config(): pydantic raises ValidationError for a field without default
\* that is not set and for a value that is not of the type of its field
ConfigRaises(env) ==
    \/ \E var \in RequiredVars : env[var] = "unset"
    \/ \E var \in ConfigVars : env[var] = "invalid"

\* a validate_config that raises without logging
validate_config_silent(env) ==
    IF ConfigRaises(env) THEN [logged |-> 0, raised |-> TRUE]
    ELSE [logged |-> 0, raised |-> FALSE]

\* validate_config: the calls of logger.exception and whether it raises
validate_config(env) ==
    IF ConfigRaises(env) THEN [logged |-> 1, raised |-> TRUE]
    ELSE [logged |-> 0, raised |-> FALSE]

ConfigInit ==
    /\ Started
    /\ call \in {[fn |-> "validate_config", env |-> env, returned |-> FALSE,
                  logged |-> 0, raised |-> FALSE] : env \in Environments}

ValidateConfigReturns ==
    /\ call.fn = "validate_config"
    /\ ~call.returned
    /\ call' = [call EXCEPT !.returned = TRUE,
                            !.logged = validate_config(call.env).logged,
                            !.raised = validate_config(call.env).raised]
    /\ UNCHANGED <<shell, server, active_sessions, tasks, screen, posts,
                   follows, ignored_users, delivered, typed>>

ConfigSpec == ConfigInit /\ [][ValidateConfigReturns]_vars

AllRequiredSet == \A var \in RequiredVars : call.env[var] # "unset"

\* C32 as worded: validate_config returns normally and logs nothing when
\* the five required variables are set, and logs the fatal message once
\* and raises when one of them is missing
C32_AsWorded ==
    (call.fn = "validate_config" /\ call.returned) =>
        /\ AllRequiredSet => (~call.raised /\ call.logged = 0)
        /\ ~AllRequiredSet => (call.raised /\ call.logged = 1)

\* C32, amended: validate_config returns normally and logs nothing when
\* the five required variables are set and every variable that is set
\* holds a value of the type of its field; otherwise (a required variable
\* missing, or a value that does not parse) it logs the fatal message
\* exactly once and raises the validation error
C32_SetAndWellTyped ==
    (call.fn = "validate_config" /\ call.returned) =>
        LET good == /\ AllRequiredSet
                    /\ \A var \in ConfigVars : call.env[var] # "invalid"
        IN /\ good => (~call.raised /\ call.logged = 0)
           /\ ~good => (call.raised /\ call.logged = 1)

\* the five variables are set, ITTER_DEBUG_MODE to something that is not a
\* bool: logged and raised
C32_SetButInvalid ==
    /\ call.fn = "validate_config"
    /\ call.returned
    /\ AllRequiredSet
    /\ call.env["ITTER_DEBUG_MODE"] = "invalid"
    /\ call.raised
    /\ call.logged = 1

\* ------------------------------------------------- replay of the history
\* a session whose command handlers add lines to the history while the
\* arrow keys walk through it
ReplayNext ==
    \/ \E command \in HistoryCommands : Add(command)
    \/ \E s \in Sessions : ArrowUp(s)
    \/ \E s \in Sessions : ArrowDown(s)

ReplaySpec == EditorInit /\ [][ReplayNext]_vars

\* C33: the replay cursor stays in -1 .. len(history) - 1. An arrow-up
\* moves it one entry towards the oldest and stays on the oldest, so k
\* arrow-ups in a row yield the k newest entries, newest first, and then
\* the oldest again; an arrow-down moves it one entry towards the newest
\* and yields the empty string from the newest entry and with no entry
\* selected. After either key the line is the string yielded and the
\* cursor of the line is at its end.
C33_ArrowsReplayHistory ==
    /\ [](\A s \in Sessions :
             /\ 0 - 1 <= shell[s].history_cursor
             /\ shell[s].history_cursor <= Len(shell[s].history) - 1)
    /\ [][\A s \in Sessions :
            LET h == shell[s].history
                c == shell[s].history_cursor
            IN /\ ArrowUp(s) =>
                    LET to == IF h = <<>> THEN c ELSE Min(c + 1, Len(h) - 1)
                        yielded == IF h = <<>> THEN <<>> ELSE h[to + 1]
                    IN /\ shell'[s].history_cursor = to
                       /\ shell'[s].history = h
                       /\ shell'[s].input_buffer = yielded
                       /\ shell'[s].cursor_pos = Len(yielded)
               /\ ArrowDown(s) =>
                    LET to == Max(0 - 1, c - 1)
                        yielded == IF h = <<>> \/ c <= 0 THEN <<>> ELSE h[to + 1]
                    IN /\ shell'[s].history_cursor = to
                       /\ shell'[s].history = h
                       /\ shell'[s].input_buffer = yielded
                       /\ shell'[s].cursor_pos = Len(yielded)]_vars

\* four arrow-ups on a history of three entries: the oldest is on the line
C33_OldestYieldedAgain ==
    /\ Len(shell[1].history) = 3
    /\ shell[1].history_cursor = 2
    /\ shell[1].input_buffer = shell[1].history[3]
    /\ shell[1].input_buffer # <<>>
    /\ typed >= 4

\* ------------------------------------------------- two logins, one name
\* C34: as long as the connection of a logged-in session is open, the
\* registry maps the username of the session to that session
C34_OpenSessionIsRegistered ==
    \A s \in Sessions :
        (shell[s].chan = "open" /\ shell[s].username # NoUser) =>
            active_sessions[shell[s].username] = s

\* ------------------------------------------------- renders in flight
\* C35: no watch screen is written to the terminal of a session while the
\* session is not watching, whatever started the render
C35_NoWatchScreenOutsideWatch ==
    \A s \in Sessions : screen[s].kind = "watch" => screen[s].watching

\* C36: the posts of a watch screen were fetched for the page number that
\* the title of the screen shows
C36_TitleIsFetchedPage ==
    \A s \in Sessions :
        screen[s].kind = "watch" => screen[s].title = screen[s].dpage

\* ------------------------------------------- page-down keys in watch mode
\* both sessions watch page 1, whose fetch returned an empty or a full
\* page; the only input is the page-down key, so a page above 1 is asked
\* for by one render only, and the timer does not fire
PagingInit ==
    \E n \in FetchCounts :
        /\ shell = [s \in Sessions |->
                      [WatchingShell(s) EXCEPT !.last_timeline_eets_count = n]]
        /\ server = [s \in Sessions |-> LoggedIn(UserOf(s))]
        /\ active_sessions = [u \in AllNames |->
                                 IF \E s \in Sessions : UserOf(s) = u
                                 THEN CHOOSE s \in Sessions : UserOf(s) = u
                                 ELSE Elsewhere]
        /\ tasks = [s \in Sessions |->
                       [NewTask(s, "loop", s, "-", 0) EXCEPT !.pc = "sleep"]]
        /\ screen = [s \in Sessions |->
                       [BlankScreen EXCEPT !.kind = "watch", !.dpage = 1,
                                           !.title = 1, !.watching = TRUE]]
        /\ posts = 0
        /\ follows = {}
        /\ ignored_users = {}
        /\ call = NoCall
        /\ delivered = 0
        /\ typed = 0

PagingNext ==
    \/ \E s \in Sessions : PageDown(s)
    \/ \E i \in 1..MaxTasks : StartTask(i)
    \/ \E i \in 1..MaxTasks, n \in FetchCounts : FetchReturns(i, n, TRUE)
    \/ \E i \in 1..MaxTasks : FollowingReturns(i, TRUE)

PagingSpec == PagingInit /\ [][PagingNext]_vars

\* the render that a page key of session s asked for page p has not got
\* its posts yet
FetchPending(s, p) ==
    \E i \in DOMAIN tasks :
        /\ tasks[i].sess = s
        /\ tasks[i].kind = "render"
        /\ tasks[i].page = p
        /\ tasks[i].pc \in {"new", "rw_fetch"}

\* C37: in watch mode a page-down key moves the current page from p to
\* p + 1 only when a fetch of page p has completed with a full page, so
\* keys pressed before the next fetch completes move at most one page on
C37_PageDownBackedByFetch ==
    [][\A s \in Sessions :
          (/\ PageDown(s)
           /\ shell[s].is_watching_timeline
           /\ shell'[s].current_timeline_page
                 = shell[s].current_timeline_page + 1)
          => ~FetchPending(s, shell[s].current_timeline_page)]_vars

\* ------------------------------------------------- the order of commands
\* the handler of an earlier line of the session of task i has started and
\* has not returned
EarlierHandlerRunning(i) ==
    \E j \in 1..(i - 1) :
        /\ tasks[j].sess = tasks[i].sess
        /\ tasks[j].kind = "cmd"
        /\ tasks[j].pc # "new"

\* C38: the handler of a submitted line starts only after the handler of
\* the line the same session submitted before it has finished, also when
\* that handler is waiting for the store
C38_HandlersRunInTurn ==
    [][\A i \in 1..MaxTasks :
          (StartTask(i) /\ tasks[i].kind = "cmd" /\ ~tasks[i].cancelled)
          => ~EarlierHandlerRunning(i)]_vars

\* ------------------------------------------- the session of a registration
\* connection_made of a shell of the registration flow: the flow runs in a
\* task of its own
RegistrationConnectionMade(s) ==
    /\ shell[s].chan = "requested"
    /\ IsRegistrationFlow(shell[s])
    /\ Room(1)
    /\ shell' = [shell EXCEPT ![s].chan = "open"]
    /\ CreateTask("reg", s, "-", NoPage)
    /\ UNCHANGED <<server, active_sessions, screen, posts, follows,
                   ignored_users, call, delivered, typed>>

\* _handle_registration_flow: db_create_user answers or raises; the message
\* is written and, in the finally clause, the session is closed
CreateUserReturns(i, ok) ==
    /\ i \in DOMAIN tasks
    /\ tasks[i].pc = "reg_create"
    /\ ~tasks[i].cancelled
    /\ LET w == Frame(tasks[i].sess)
       IN Commit(tasks[i].sess,
            Finish(Close(WriteBelow(w, <<IF ok THEN "registered"
                                         ELSE "error">>)), i))
    /\ UNCHANGED <<server, active_sessions, posts, follows, ignored_users,
                   call, delivered, typed>>

\* connections that register as carl, present their key and open a session,
\* in which lines are typed while the store creates the user
RegistrationFlowNext ==
    \/ \E s \in Sessions : BeginAuthRegister(s, Name("carl"), TRUE)
    \/ \E s \in Sessions : ValidatePublicKey(s)
    \/ \E s \in Sessions : SessionRequested(s)
    \/ \E s \in Sessions : RegistrationConnectionMade(s)
    \/ \E s \in Sessions : TypeChar(s, "e")
    \/ \E s \in Sessions : EnterKey(s)
    \/ \E s \in Sessions : SubmitLine(s, "watch", NoPage, 0)
    \/ \E i \in 1..MaxTasks : StartTask(i)
    \/ \E i \in 1..MaxTasks, ok \in BOOLEAN : CreateUserReturns(i, ok)
    \/ \E i \in 1..MaxTasks : TimerFires(i)
    \/ \E i \in 1..MaxTasks : CancelDelivered(i)
    \/ \E s \in Sessions : ShellConnectionLost(s)

RegistrationFlowSpec == Init /\ [][RegistrationFlowNext]_vars

\* C39: a session of the registration flow dispatches no typed command: its
\* history stays empty, it is never watching and it has no refresh task;
\* and it is closed when the attempt to create the user has succeeded or
\* failed
C39_RegistrationRunsNoCommand ==
    /\ [](\A s \in Sessions :
             IsRegistrationFlow(shell[s]) =>
                 /\ shell[s].history = <<>>
                 /\ ~shell[s].is_watching_timeline
                 /\ shell[s].timeline_auto_refresh_task = NoTask)
    /\ [][\A i \in 1..MaxTasks, ok \in BOOLEAN :
            CreateUserReturns(i, ok) =>
                \/ shell'[tasks[i].sess].close_called
                \/ shell'[tasks[i].sess].chan = "lost"]_vars

\* ------------------------------------------------ prompts after a command
\* the prompts on the terminal after the text of the last full screen: a
\* static timeline screen is followed by the _prompt() at the end of
\* render_and_display_timeline, and the prompts written since are in below
PromptsAfterScreen(scr) ==
    (IF scr.kind = "static" THEN 1 ELSE 0)
        + Cardinality({k \in DOMAIN scr.below : scr.below[k] = "prompt"})

\* C40: when a static timeline command has completed, exactly one prompt
\* has been written after the timeline screen
C40_OnePromptAfterTimeline ==
    [][\A i \in 1..MaxTasks :
          (/\ FormatReturns(i)
           /\ tasks[i].kind = "cmd"
           /\ shell[tasks[i].sess].chan = "open")
          => PromptsAfterScreen(screen'[tasks[i].sess]) = 1]_vars

====
